---------------------------- MODULE Spec2Model ----------------------------
(***************************************************************************)
(* A model of velox::exec::RowContainer (velox/exec/RowContainer.cpp).     *)
(*                                                                         *)
(* A container is a configuration (key types, accumulators, dependent      *)
(* types, flags), the row layout computed from it by the constructor, an   *)
(* arena of fixed-size rows, a free list threaded through erased rows and  *)
(* a handful of counters.  Row pointers are byte addresses; 0 is nullptr.  *)
(* Of a row the model keeps the flag bits that are set (bit numbers count  *)
(* from the row's first byte, as in the code) and the pointer slot at      *)
(* offset 0 while the row is on the free list.  Column payloads, column    *)
(* statistics and the string allocator are not part of this model.         *)
(***************************************************************************)
EXTENDS Integers, Sequences, FiniteSets, TLC

(***************************************************************************)
(* Bounds of the model.                                                    *)
(***************************************************************************)
\* Rows the arena may hold in the lifecycle specification.
MaxRows == 2
\* Rows the arena may hold in the free-list specification.
MaxFreeListRows == 4
\* Rows the arena may hold in the sealing specification.
MaxSealRows == 2
\* Longest batch handed to eraseRows.
MaxBatch == 2
\* Rows the arena may hold in the partition-listing specification.
MaxListRows == 5
\* Rows that may be erased before sealing in the partition-listing
\* specification.
MaxListErased == 1
\* Largest maxRows passed to listPartitionRows.
MaxListBatch == 2
\* Most partition numbers handed to one appendPartitions.
MaxAppend == 2
\* Rows the arena may hold in the iteration specification.
MaxSkipRows == 4
\* Calls of skip made on one iterator.
MaxSkipCalls == 2
\* Rows of the scanned containers and the most rows one skip of the scan
\* is to pass.
MaxScanRows == 3
MaxScanSkip == 2
\* Rows and rows per extracted batch where rows are serialized.
MaxSerdeRows == 2
MaxSerdeBatch == 1
\* Rows where rows are serialized and not loaded.
MaxExtractRows == 1
\* Keys, accumulators, dependents and rows of the containers of many
\* schemas.
MaxKeys == 2
MaxAccumulators == 4
MaxDependents == 1
MaxLayoutRows == 1
\* Rows and rows per erased batch where the column statistics are followed.
MaxStatsRows == 2
MaxStatsBatch == 1
\* Rows where the rows newRow returns are followed.
MaxInitializeRows == 1
\* Rows and rows per erased batch where rows are erased and allocated again.
MaxReuseRows == 4
MaxReuseBatch == 2

\* Rows and erased batch of the containers that are cleared.
MaxClearRows == 2
MaxClearBatch == 1

\* Rows of the containers whose rows are compared.
MaxCompareRows == 2

\* Keys, accumulators, dependents and rows of the containers whose row
\* layout is taken as byte regions.
MaxRegionKeys == 2
MaxRegionAccumulators == 2
MaxRegionDependents == 1
MaxRegionRows == 2

\* Accumulators, rows, calls of newRow and erased batch of the containers
\* whose destroy hooks are followed, and the batch of clear() (kBatch =
\* 1000 in the code), scaled down.
NumLifetimeAccumulators == 2
MaxLifetimeRows == 2
MaxLifetimes == 3
MaxLifetimeBatch == 2
kClearBatch == 1

\* Rows and hashed batch of the containers whose rows are hashed.
MaxHashRows == 2
MaxHashBatch == 2

\* Rows, places for a range and candidate pointers of the containers
\* whose ranges are searched.
MaxFindRows == 2
MaxFindSlots == 3
MaxCandidates == 2

\* The alignments and the accumulators the constructor is called with.
MaxAlignmentValue == 16
MaxAlignedAccumulators == 2

\* Rows of the probed containers and threads that probe them.
MaxProbeRows == 2
MaxProbers == 2

\* The callers stop once a counter of the column statistics is this far
\* from 0.
MaxStat == 4
\* Largest value of a fixed-width column.
MaxValue == 1
\* Longest string or serialized complex value.
MaxStringLen == 1
\* Bytes of one arena range (AllocationPool run), scaled down.
RangeBytes == 40
\* Width of the SIMD batch of partition bytes (xsimd::batch<uint8_t>::size,
\* 16 or 32 in the builds), scaled down.  The code uses it arithmetically
\* only.
kBatch == 2

(***************************************************************************)
(* Program constants.                                                      *)
(***************************************************************************)
\* sizeof(void*)
kPointerSize == 8
\* RowContainer::kNumAccumulatorFlags: null bit and initialized bit.
kNumAccumulatorFlags == 2
\* sizeof(normalized_key_t)
kNormalizedKeySize == 8
\* alignment_ before any accumulator is combined in.
kInitialAlignment == 8
\* RowColumn::kNotNullOffset
kNotNullOffset == -1

NULL == 0

\* The element of a set of one element.  A value that is used many times is
\* worked out once as the element of such a set.
TheOne(S) == CHOOSE x \in S : TRUE

Max(a, b) == IF a >= b THEN a ELSE b
Min(a, b) == IF a <= b THEN a ELSE b

\* bits::roundUp(value, factor)
roundUp(value, factor) == ((value + factor - 1) \div factor) * factor

\* bits::nbytes(bits)
nbytes(bits) == (bits + 7) \div 8

(***************************************************************************)
(* Type kinds and their in-row width.                                      *)
(***************************************************************************)
TypeKinds ==
    {"UNKNOWN", "BOOLEAN", "TINYINT", "INTEGER", "BIGINT", "VARCHAR", "ARRAY"}

typeKindSize(kind) ==
    CASE kind = "UNKNOWN" -> 1
      [] kind = "BOOLEAN" -> 1
      [] kind = "TINYINT" -> 1
      [] kind = "INTEGER" -> 4
      [] kind = "BIGINT"  -> 8
      [] kind = "VARCHAR" -> 16
      [] kind = "ARRAY"   -> 16

isFixedWidth(kind) == kind \notin {"VARCHAR", "ARRAY"}

RECURSIVE SumSizes(_)
SumSizes(kinds) ==
    IF kinds = <<>> THEN 0
    ELSE typeKindSize(Head(kinds)) + SumSizes(Tail(kinds))

(***************************************************************************)
(* The row layout: RowContainer::RowContainer.                             *)
(* A configuration c is a record                                           *)
(*   [keyTypes, nullableKeys, accumulators, dependentTypes, hasNext,       *)
(*    hasProbedFlag, hasNormalizedKeys]                                    *)
(* with accumulators a sequence of                                         *)
(*   [isFixedSize, fixedSize, usesExternalMemory, alignment].              *)
(***************************************************************************)
NumKeys(c) == Len(c.keyTypes)
NumAccumulators(c) == Len(c.accumulators)
NumDependents(c) == Len(c.dependentTypes)

\* types_ : the key types followed by the dependent types.
types(c) == c.keyTypes \o c.dependentTypes

\* firstAggregateOffset without the std::max with sizeof(void*).
firstAggregateOffsetUnpadded(c) == SumSizes(c.keyTypes)

\* 'offset' after the keys, made at least sizeof(void*).
firstAggregateOffset(c) == Max(SumSizes(c.keyTypes), kPointerSize)

\* 'flagOffset' after the loop over the keys.
KeyFlagEnd(c) == IF c.nullableKeys THEN NumKeys(c) ELSE 0

AccumulatorFlagStartUnrounded(c) == KeyFlagEnd(c)

\* 'flagOffset' where the accumulator flags begin.
AccumulatorFlagStart(c) ==
    IF c.accumulators # <<>> THEN roundUp(KeyFlagEnd(c), 8) ELSE KeyFlagEnd(c)

\* 'flagOffset' where the dependents' null bits begin.
DependentFlagStart(c) ==
    AccumulatorFlagStart(c) + kNumAccumulatorFlags * NumAccumulators(c)

\* 'flagOffset' after the dependents.
DependentFlagEnd(c) == DependentFlagStart(c) + NumDependents(c)

\* nullOffsets_ after the fix-up: one entry per key, accumulator, dependent.
nullOffsets(c) ==
    [i \in 1..(NumKeys(c) + NumAccumulators(c) + NumDependents(c)) |->
        firstAggregateOffset(c) * 8 +
        (IF i <= NumKeys(c)
            THEN (IF c.nullableKeys THEN i - 1 ELSE 0)
         ELSE IF i <= NumKeys(c) + NumAccumulators(c)
            THEN AccumulatorFlagStart(c) +
                 kNumAccumulatorFlags * (i - NumKeys(c) - 1)
         ELSE DependentFlagStart(c) +
              (i - NumKeys(c) - NumAccumulators(c) - 1))]

probedFlagOffset(c) ==
    IF c.hasProbedFlag
        THEN DependentFlagEnd(c) + firstAggregateOffset(c) * 8
        ELSE 0

freeFlagOffset(c) ==
    DependentFlagEnd(c) + (IF c.hasProbedFlag THEN 1 ELSE 0) +
    firstAggregateOffset(c) * 8

flagBytes(c) ==
    nbytes(DependentFlagEnd(c) + (IF c.hasProbedFlag THEN 1 ELSE 0) + 1)

kAlignmentPowerOf2 == "Alignment can only be power of 2"

\* The least int32_t: the sign bit alone.
kInt32Min == -2147483647 - 1

\* The bits set in a non-negative int32_t.
RECURSIVE bitsSet(_)
bitsSet(n) == IF n = 0 THEN 0 ELSE (n % 2) + bitsSet(n \div 2)

\* __builtin_popcount of an int32_t, which it takes as unsigned: the sign
\* bit of a negative number and the bits below it.
popcount(n) == IF n < 0 THEN 1 + bitsSet(n - kInt32Min) ELSE bitsSet(n)

\* combineAlignments without its two checks.
combineAlignmentsUnchecked(a, b) == [err |-> "", value |-> Max(a, b)]

\* RowContainer::combineAlignments(a, b): the error thrown or the value
\* returned.
combineAlignments(a, b) ==
    IF popcount(a) # 1 \/ popcount(b) # 1
        THEN [err |-> kAlignmentPowerOf2, value |-> 0]
        ELSE [err |-> "", value |-> Max(a, b)]

\* RowContainer::combineAlignments over all accumulators.
RECURSIVE CombinedAlignment(_, _)
CombinedAlignment(accs, a) ==
    IF accs = <<>> THEN a
    ELSE CombinedAlignment(Tail(accs),
                           combineAlignments(Head(accs).alignment, a).value)

\* The error the constructor's loop over the accumulators throws, "" when
\* it throws none.
RECURSIVE alignmentError(_, _)
alignmentError(accs, a) ==
    IF accs = <<>> THEN ""
    ELSE LET combined == combineAlignments(Head(accs).alignment, a)
         IN  IF combined.err # "" THEN combined.err
             ELSE alignmentError(Tail(accs), combined.value)

alignment(c) == CombinedAlignment(c.accumulators, kInitialAlignment)

\* 'offset' after the accumulator payloads, starting from 'offset'.
RECURSIVE AccumulatorsEnd(_, _)
AccumulatorsEnd(accs, offset) ==
    IF accs = <<>> THEN offset
    ELSE AccumulatorsEnd(Tail(accs),
             roundUp(offset, Head(accs).alignment) + Head(accs).fixedSize)

DependentsEnd(c) ==
    AccumulatorsEnd(c.accumulators, firstAggregateOffset(c) + flagBytes(c)) +
    SumSizes(c.dependentTypes)

isVariableWidth(c) ==
    \/ \E i \in 1..Len(types(c)) : ~isFixedWidth(types(c)[i])
    \/ \E i \in 1..NumAccumulators(c) : ~c.accumulators[i].isFixedSize

rowSizeOffset(c) == IF isVariableWidth(c) THEN DependentsEnd(c) ELSE 0

RowSizeEnd(c) == DependentsEnd(c) + (IF isVariableWidth(c) THEN 4 ELSE 0)

nextOffset(c) == IF c.hasNext THEN RowSizeEnd(c) ELSE 0

fixedRowSizeUnrounded(c) ==
    RowSizeEnd(c) + (IF c.hasNext THEN kPointerSize ELSE 0)

fixedRowSize(c) ==
    roundUp(RowSizeEnd(c) + (IF c.hasNext THEN kPointerSize ELSE 0),
            alignment(c))

originalNormalizedKeySize(c) ==
    IF c.hasNormalizedKeys THEN roundUp(kNormalizedKeySize, alignment(c)) ELSE 0

\* rowColumns_[i].nullOffset: kNotNullOffset for the keys of a container
\* without nullable keys.
columnNullOffset(c, i) ==
    IF c.nullableKeys \/ i > NumKeys(c) THEN nullOffsets(c)[i]
    ELSE kNotNullOffset

\* offsets_ : the offset of every key, accumulator and dependent, in that
\* order.
offsets(c) ==
    LET payloadStart == firstAggregateOffset(c) + flagBytes(c)
    IN  [i \in 1..(NumKeys(c) + NumAccumulators(c) + NumDependents(c)) |->
            IF i <= NumKeys(c)
                THEN SumSizes(SubSeq(c.keyTypes, 1, i - 1))
            ELSE IF i <= NumKeys(c) + NumAccumulators(c)
                THEN LET a == i - NumKeys(c)
                     IN  roundUp(AccumulatorsEnd(
                                     SubSeq(c.accumulators, 1, a - 1),
                                     payloadStart),
                                 c.accumulators[a].alignment)
            ELSE AccumulatorsEnd(c.accumulators, payloadStart) +
                 SumSizes(SubSeq(c.dependentTypes, 1,
                                 i - NumKeys(c) - NumAccumulators(c) - 1))]

(***************************************************************************)
(* State.                                                                  *)
(***************************************************************************)
VARIABLES
    cfg,            \* the constructor's arguments
    debugBuild,     \* whether VELOX_DCHECK is compiled in (NDEBUG not set)
    ranges,         \* rows_ : the arena's ranges, [start, size, used]
    rows,           \* the rows bump-allocated so far, [addr, bits, next]
    numRows,        \* numRows_
    numFreeRows,    \* numFreeRows_
    numRowsWithNormalizedKey,   \* numRowsWithNormalizedKey_
    normalizedKeySize,          \* normalizedKeySize_
    firstFreeRow,   \* firstFreeRow_
    mutable,        \* mutable_
    parts,          \* the RowPartitions made by createRowPartitions
    iter,           \* the caller's RowContainerIterator
    lastOp,         \* the last call and its outcome
    prevErase,      \* the call before it, when that was an eraseRows
    aborted,        \* a call has thrown: the caller makes no further call
    handedOut,      \* rows returned by newRow and not erased since
    eraseLog,       \* rows erased and not re-allocated since, in erase order
    scan,           \* the partition being listed and the rows listed so far
    cells,          \* the payload of the rows: per row, the column values
    stats,          \* rowColumnsStats_
    serialized,     \* the vector filled by extractSerializedRows and the rows
                    \* it was filled from
    probers,        \* the calls of setProbedFlag: where each thread is in it
    lifetimes       \* the rows newRow returned and the calls of the destroy
                    \* hooks and of the release of variable-width payload

vars == <<cfg, debugBuild, ranges, rows, numRows, numFreeRows,
          numRowsWithNormalizedKey, normalizedKeySize, firstFreeRow, mutable,
          parts, iter, lastOp, prevErase, aborted, handedOut,
          eraseLog, scan, cells, stats, serialized, probers, lifetimes>>

containerVars == <<ranges, rows, numRows, numFreeRows,
                   numRowsWithNormalizedKey, normalizedKeySize, firstFreeRow>>

\* The column payloads, the column statistics and the serialized rows.  Only
\* the specifications of the column data follow them; the others, whose
\* properties read none of them, leave them as they are.
dataVars == <<cells, stats, serialized>>

\* A call and its outcome: err = "" when the call returned.
Op(op, err, row, batch) == [op |-> op, err |-> err, row |-> row, rows |-> batch]

NoOp == Op("", "", NULL, <<>>)

kDoubleFree == "Double free of row"
kImmutable == "Can't add row into an immutable row container"
kFreeBitNotSet == "bits::isBitSet(row, freeFlagOffset_)"
kAllocationFailed == "allocation failed"
kPartitionsOnce == "Can only create RowPartitions once from a row container"
kListMutable == "Can't list partition rows from a mutable row container"
kListSize == "All rows must have a partition"

SeqToSet(s) == {s[i] : i \in 1..Len(s)}

\* The index in 'rs' of the row at address 'addr'.
RowIndex(rs, addr) == CHOOSE i \in 1..Len(rs) : rs[i].addr = addr

RowAt(rs, addr) == rs[RowIndex(rs, addr)]

\* bits::isBitSet(row, offset)
isBitSet(row, offset) == offset \in row.bits

\* RowContainer::nextFree(row): the pointer at offset 0 of the row.
nextFree(row) == row.next

(***************************************************************************)
(* The arena (AllocationPool).                                             *)
(***************************************************************************)
\* Where the model lets the pool place a new range: past the last one,
\* or at 64.
nextRangeStart(rgs) ==
    IF rgs = <<>> THEN 64
    ELSE roundUp(rgs[Len(rgs)].start + rgs[Len(rgs)].size + 1, 64)

\* AllocationPool::allocateFixed(bytes, alignment): the ranges after the
\* call and the address returned.  A range that cannot take the request
\* keeps its unused tail and a new range is started, at 'start'.
allocateFixedAt(rgs, bytes, align, start) ==
    LET n == Len(rgs)
        offset == IF n = 0 THEN 0 ELSE roundUp(rgs[n].used, align)
    IN  IF n > 0 /\ offset + bytes <= rgs[n].size
            THEN [ranges |-> [rgs EXCEPT ![n].used = offset + bytes],
                  addr |-> rgs[n].start + offset]
            ELSE [ranges |-> Append(rgs, [start |-> start,
                                          size |-> Max(RangeBytes, bytes),
                                          used |-> bytes]),
                  addr |-> start]

\* AllocationPool::rangeAt(i), i counted from 0: the range being filled
\* ends at the bytes used, an earlier range at its full size.
rangeAt(rgs, i) ==
    [data |-> rgs[i + 1].start,
     size |-> IF i + 1 = Len(rgs) THEN rgs[i + 1].used ELSE rgs[i + 1].size]

(***************************************************************************)
(* setProbedFlag.                                                          *)
(***************************************************************************)
\* The value setBit stores: the mask alone.
setBitStoringMask(byte, idx) == {idx}

\* setBit(bits, idx): the value stored in byte idx / 8, of the value loaded
\* from it: bitsAs8Bit[idx / 8] |= (1 << (idx % 8)).
setBit(byte, idx) == byte \cup {idx}

\* The bits of the row that byte idx / 8 of it holds.
loadByte(row, idx) == {b \in row.bits : b \div 8 = idx \div 8}

\* The bits of the row once 'byte' is stored in byte idx / 8 of it.
storeByte(row, idx, byte) ==
    {b \in row.bits : b \div 8 # idx \div 8} \cup byte

(***************************************************************************)
(* findRows.                                                               *)
(***************************************************************************)
\* The ranges of rows_ as findRows collects them: rangeAt(0), rangeAt(1)...
arenaRanges(rgs) == [i \in 1..Len(rgs) |-> rangeAt(rgs, i - 1)]

\* std::sort of the ranges by their first address.
RECURSIVE sortRanges(_)
sortRanges(rs) ==
    IF rs = <<>> THEN <<>>
    ELSE LET first == CHOOSE i \in 1..Len(rs) :
                          \A j \in 1..Len(rs) : rs[i].data <= rs[j].data
         IN  <<rs[first]>> \o
             sortRanges([k \in 1..(Len(rs) - 1) |->
                            IF k < first THEN rs[k] ELSE rs[k + 1]])

\* std::lower_bound(starts.begin(), starts.end(), address) as an index
\* from 1: the first start that is not below the address, Len(starts) + 1
\* for starts.end().
lowerBound(starts, address) ==
    Cardinality({i \in 1..Len(starts) : starts[i] < address}) + 1

\* The same, taking the size of the range above the address.
foundInTakingNextRange(starts, sizes, address) ==
    LET it == lowerBound(starts, address)
        n == Len(starts)
    IN  IF it = n + 1
            THEN address >= starts[n] /\ address < starts[n] + sizes[n]
        ELSE IF address = starts[it] THEN TRUE
        ELSE IF it = 1 THEN FALSE
        ELSE starts[it - 1] + sizes[it] > address

\* The test the loop of findRows makes on one candidate, over sorted
\* starts of which there is at least one.
foundIn(starts, sizes, address) ==
    LET it == lowerBound(starts, address)
        n == Len(starts)
    IN  IF it = n + 1
            THEN address >= starts[n] /\ address < starts[n] + sizes[n]
        ELSE IF address = starts[it] THEN TRUE
        ELSE IF it = 1 THEN FALSE
        ELSE starts[it - 1] + sizes[it - 1] > address

kBackOfEmpty == "starts.back() of an empty vector"

\* What starts.back() and sizes.back() may read when there is no range:
\* nothing (the read faults) or any two numbers.
GarbageRanges(candidates) ==
    {[data |-> a, size |-> n] :
        a \in {0} \cup SeqToSet(candidates), n \in {0, RangeBytes}}

\* RowContainer::findRows(rows, result): the outcomes the call may have,
\* each an error or the rows written to 'result', whose number is returned.
\* With no range and a candidate, starts.back() is read of an empty vector.
findRows(rgs, candidates) ==
    LET sorted == sortRanges(arenaRanges(rgs))
        starts == [i \in 1..Len(sorted) |-> sorted[i].data]
        sizes == [i \in 1..Len(sorted) |-> sorted[i].size]
    IN  IF candidates = <<>> THEN {[err |-> "", result |-> <<>>]}
        ELSE IF starts = <<>>
            THEN {[err |-> kBackOfEmpty, result |-> <<>>]} \cup
                 {[err |-> "",
                   result |-> SelectSeq(candidates,
                       LAMBDA a : a >= g.data /\ a < g.data + g.size)] :
                     g \in GarbageRanges(candidates)}
        ELSE {[err |-> "",
               result |-> SelectSeq(candidates,
                   LAMBDA a : foundIn(starts, sizes, a))]}

(***************************************************************************)
(* newRow and initializeRow.                                               *)
(***************************************************************************)
\* What freshly allocated, never written row memory may hold in its flag
\* bits: any value.  Of the bits the model follows only the probed bit is
\* left after initializeRow clears the free bit.
UninitializedBits(c) ==
    IF c.hasProbedFlag THEN SUBSET {probedFlagOffset(c), freeFlagOffset(c)}
    ELSE SUBSET {freeFlagOffset(c)}

initializeRowKeepingFlags(c, row) ==
    [row EXCEPT !.bits = row.bits \ {freeFlagOffset(c)}, !.next = NULL]

\* RowContainer::initializeRow(row, false): the row's bits afterwards.  The
\* pointer slot at offset 0 is key payload from here on (zeroed when the row
\* has a variable-width counter, else left as it is until a key is stored):
\* the model follows it on the free list only and keeps NULL meanwhile.
initializeRow(c, row) ==
    LET zeroed == rowSizeOffset(c) # 0
        flagsCleared == Len(nullOffsets(c)) > 0
    IN  [row EXCEPT
            !.bits = (IF zeroed \/ flagsCleared THEN {} ELSE row.bits)
                        \ {freeFlagOffset(c)},
            !.next = NULL]

\* The head of the free list after newRow has taken 'row' from it.
popFreeDropsList(row) == NULL

popFree(row) == nextFree(row)

\* The VELOX_DCHECK(mutable_) of newRow.
NewRowRejected == debugBuild /\ ~mutable

\* RowContainer::newRow().  allocOk: whether the arena can allocate;
\* start: where the pool places a new range if it starts one.
newRowAt(allocOk, start) ==
    IF NewRowRejected
    THEN /\ lastOp' = Op("newRow", kImmutable, NULL, <<>>)
         /\ aborted' = TRUE
         /\ UNCHANGED <<containerVars, handedOut, eraseLog>>
    ELSE IF firstFreeRow # NULL
    THEN LET row == RowAt(rows, firstFreeRow)
             i == RowIndex(rows, firstFreeRow)
         IN  IF ~isBitSet(row, freeFlagOffset(cfg))
             THEN /\ numRows' = numRows + 1
                  /\ lastOp' = Op("newRow", kFreeBitNotSet, NULL, <<>>)
                  /\ aborted' = TRUE
                  /\ UNCHANGED <<ranges, rows, numFreeRows,
                                 numRowsWithNormalizedKey, normalizedKeySize,
                                 firstFreeRow, handedOut, eraseLog>>
             ELSE /\ numRows' = numRows + 1
                  /\ firstFreeRow' = popFree(row)
                  /\ numFreeRows' = numFreeRows - 1
                  /\ rows' = [rows EXCEPT ![i] = initializeRow(cfg, row)]
                  /\ lastOp' = Op("newRow", "", row.addr, <<>>)
                  /\ handedOut' = handedOut \cup {row.addr}
                  /\ eraseLog' = SelectSeq(eraseLog, LAMBDA a : a # row.addr)
                  /\ UNCHANGED <<ranges, numRowsWithNormalizedKey,
                                 normalizedKeySize, aborted>>
    ELSE IF ~allocOk
    THEN /\ numRows' = numRows + 1
         /\ lastOp' = Op("newRow", kAllocationFailed, NULL, <<>>)
         /\ aborted' = TRUE
         /\ UNCHANGED <<ranges, rows, numFreeRows, numRowsWithNormalizedKey,
                        normalizedKeySize, firstFreeRow, handedOut, eraseLog>>
    ELSE LET a == allocateFixedAt(ranges,
                                  fixedRowSize(cfg) + normalizedKeySize,
                                  alignment(cfg), start)
             addr == a.addr + normalizedKeySize
         IN  \E garbage \in UninitializedBits(cfg) :
                /\ numRows' = numRows + 1
                /\ ranges' = a.ranges
                /\ numRowsWithNormalizedKey' =
                       IF normalizedKeySize # 0
                           THEN numRowsWithNormalizedKey + 1
                           ELSE numRowsWithNormalizedKey
                /\ rows' = Append(rows,
                       initializeRow(cfg, [addr |-> addr, bits |-> garbage,
                                           next |-> NULL]))
                /\ lastOp' = Op("newRow", "", addr, <<>>)
                /\ handedOut' = handedOut \cup {addr}
                /\ UNCHANGED <<numFreeRows, normalizedKeySize, firstFreeRow,
                               aborted, eraseLog>>

\* newRow() with the pool placing every new range past the ranges there
\* are.
newRow(allocOk) == newRowAt(allocOk, nextRangeStart(ranges))

(***************************************************************************)
(* eraseRows.                                                              *)
(***************************************************************************)
\* What one turn of the loop of eraseRows does to a row that passed the
\* double-free check: set the free bit and link the row before the head.
pushFree(c, row, head) ==
    [row EXCEPT !.bits = row.bits \cup {freeFlagOffset(c)}, !.next = head]

\* The VELOX_CHECK of the loop of eraseRows.
isDoubleFreeUnchecked(c, row) == FALSE

isDoubleFree(c, row) == isBitSet(row, freeFlagOffset(c))

\* The loop of eraseRows from the i-th row of the batch on: the rows and
\* the head of the free list when the loop ends or throws, the number of
\* rows pushed and the error thrown.
RECURSIVE eraseLoop(_, _, _, _, _)
eraseLoop(c, rs, head, batch, i) ==
    IF i > Len(batch)
        THEN [rows |-> rs, firstFreeRow |-> head, done |-> i - 1, err |-> ""]
    ELSE LET k == RowIndex(rs, batch[i])
         IN  IF isDoubleFree(c, rs[k])
                 THEN [rows |-> rs, firstFreeRow |-> head, done |-> i - 1,
                       err |-> kDoubleFree]
                 ELSE eraseLoop(c, [rs EXCEPT ![k] = pushFree(c, rs[k], head)],
                                rs[k].addr, batch, i + 1)

\* The order in which the loop of eraseRows takes the rows of the batch.
eraseOrderReversed(batch) == [i \in 1..Len(batch) |-> batch[Len(batch) + 1 - i]]

eraseOrder(batch) == batch

\* What eraseRows adds to numFreeRows_ and freeRowsExtraMemory takes from
\* numRows_: rows.size().
batchSizeOne(batch) == 1

batchSize(batch) == Len(batch)

\* RowContainer::eraseRows(rows).  freeRowsExtraMemory lowers numRows_
\* before the loop; numFreeRows_ is raised after it.
eraseRows(batch) ==
    LET r == eraseLoop(cfg, rows, firstFreeRow, eraseOrder(batch), 1)
        erased == SubSeq(eraseOrder(batch), 1, r.done)
    IN  /\ numRows' = numRows - batchSize(batch)
        /\ rows' = r.rows
        /\ firstFreeRow' = r.firstFreeRow
        /\ numFreeRows' = IF r.err = "" THEN numFreeRows + batchSize(batch)
                          ELSE numFreeRows
        /\ lastOp' = Op("eraseRows", r.err, NULL, batch)
        /\ aborted' = (r.err # "")
        /\ handedOut' = handedOut \ SeqToSet(erased)
        /\ eraseLog' = eraseLog \o erased
        /\ UNCHANGED <<ranges, numRowsWithNormalizedKey, normalizedKeySize>>

(***************************************************************************)
(* setAllNull and store.                                                   *)
(***************************************************************************)
\* The bits setAllNull sets: every entry of nullOffsets_.
allNullBits(c) == {nullOffsets(c)[i] : i \in 1..Len(nullOffsets(c))}

\* RowContainer::setAllNull(row).
setAllNull(addr) ==
    LET i == RowIndex(rows, addr)
    IN  IF isBitSet(rows[i], freeFlagOffset(cfg))
        THEN /\ lastOp' = Op("setAllNull", "!bits::isBitSet(row, freeFlagOffset_)",
                             addr, <<>>)
             /\ aborted' = TRUE
             /\ UNCHANGED <<containerVars, handedOut, eraseLog>>
        ELSE /\ rows' = [rows EXCEPT
                            ![i].bits = rows[i].bits \cup allNullBits(cfg)]
             /\ lastOp' = Op("setAllNull", "", addr, <<>>)
             /\ UNCHANGED <<ranges, numRows, numFreeRows,
                            numRowsWithNormalizedKey, normalizedKeySize,
                            firstFreeRow, aborted, handedOut, eraseLog>>

\* The null bit store() works on for column 'columnIndex' (counted from 1
\* over types_): that of rowColumns_[columnIndex], and none for the key of
\* a container without nullable keys.
storeNullOffset(c, columnIndex) ==
    IF columnIndex <= NumKeys(c) /\ ~c.nullableKeys THEN kNotNullOffset
    ELSE columnNullOffset(c, columnIndex)

\* What a call of store that returns leaves in lastOp.
StoreOp(addr, columnIndex, isNull) ==
    [op |-> "store", err |-> "", row |-> addr, rows |-> <<>>,
     columnIndex |-> columnIndex, isNull |-> isNull]

\* The kinds stored through storeComplexType (ROW, ARRAY and MAP).
isComplex(kind) == kind = "ARRAY"

\* The row's bits after storeNoNulls / storeWithNulls.  storeComplexType
\* sets the null bit for a null source and does not write it otherwise.
storeBits(c, row, columnIndex, isNull) ==
    LET off == storeNullOffset(c, columnIndex)
    IN  IF off = kNotNullOffset THEN row.bits
        ELSE IF isNull THEN row.bits \cup {off}
        ELSE IF isComplex(types(c)[columnIndex]) THEN row.bits
        ELSE row.bits \ {off}

\* RowContainer::store(decoded, rowIndex, row, columnIndex), with isNull
\* for decoded.isNullAt(rowIndex).
store(addr, columnIndex, isNull) ==
    LET i == RowIndex(rows, addr)
        isKey == columnIndex <= NumKeys(cfg)
    IN  IF debugBuild /\ ~isKey /\ cfg.accumulators # <<>>
        THEN /\ lastOp' = Op("store", "isKey || accumulators_.empty()", addr,
                             <<>>)
             /\ aborted' = TRUE
             /\ UNCHANGED <<containerVars, handedOut, eraseLog>>
        ELSE /\ rows' = [rows EXCEPT
                            ![i].bits = storeBits(cfg, rows[i], columnIndex,
                                                  isNull)]
             /\ lastOp' = StoreOp(addr, columnIndex, isNull)
             /\ UNCHANGED <<ranges, numRows, numFreeRows,
                            numRowsWithNormalizedKey, normalizedKeySize,
                            firstFreeRow, aborted, handedOut, eraseLog>>

(***************************************************************************)
(* clear and createRowPartitions.                                          *)
(***************************************************************************)
\* A default-constructed RowColumn::Stats.
NoCells == [nullCount |-> 0, nonNullCount |-> 0, sumBytes |-> 0,
            minBytes |-> 0, maxBytes |-> 0, minMaxStatsValid |-> TRUE]

\* rowColumnsStats_ after resize(types_.size()) from empty.
NoStats(c) == [i \in 1..Len(types(c)) |-> NoCells]

clearKeepingFreeRows ==
    /\ ranges' = <<>>
    /\ rows' = <<>>
    /\ numRows' = 0
    /\ numRowsWithNormalizedKey' = 0
    /\ normalizedKeySize' = originalNormalizedKeySize(cfg)
    /\ firstFreeRow' = NULL
    /\ cells' = <<>>
    /\ stats' = NoStats(cfg)
    /\ lastOp' = Op("clear", "", NULL, <<>>)
    /\ handedOut' = {}
    /\ eraseLog' = <<>>
    /\ UNCHANGED <<numFreeRows, mutable, aborted>>

\* RowContainer::clear().  The arena and the string allocator are emptied:
\* no row and no payload is left.
clear ==
    /\ ranges' = <<>>
    /\ rows' = <<>>
    /\ cells' = <<>>
    /\ numRows' = 0
    /\ numRowsWithNormalizedKey' = 0
    /\ normalizedKeySize' = originalNormalizedKeySize(cfg)
    /\ numFreeRows' = 0
    /\ firstFreeRow' = NULL
    /\ stats' = NoStats(cfg)
    /\ lastOp' = Op("clear", "", NULL, <<>>)
    /\ handedOut' = {}
    /\ eraseLog' = <<>>
    /\ UNCHANGED <<mutable, aborted>>

\* RowPartitions::RowPartitions(numRows, pool): no partition added yet.
RowPartitions(n) == [capacity |-> n, data |-> <<>>]

createRowPartitionsUnchecked ==
    /\ mutable' = FALSE
    /\ parts' = RowPartitions(numRows)
    /\ lastOp' = Op("createRowPartitions", "", NULL, <<>>)
    /\ UNCHANGED aborted

\* RowContainer::createRowPartitions(pool).
createRowPartitions ==
    IF ~mutable
    THEN /\ lastOp' = Op("createRowPartitions", kPartitionsOnce, NULL, <<>>)
         /\ aborted' = TRUE
         /\ UNCHANGED <<mutable, parts>>
    ELSE /\ mutable' = FALSE
         /\ parts' = RowPartitions(numRows)
         /\ lastOp' = Op("createRowPartitions", "", NULL, <<>>)
         /\ UNCHANGED aborted

(***************************************************************************)
(* RowPartitions: one partition byte per row, in runs of pages.            *)
(***************************************************************************)
\* Bytes of one page of the partition table (AllocationTraits::kPageSize),
\* scaled down with kBatch: a page holds a whole number of SIMD batches.
kPartitionPageSize == 2 * kBatch

\* RowPartitions::appendPartitions(partitions).
appendPartitions(partitions) ==
    IF Len(parts.data) + Len(partitions) > parts.capacity
    THEN /\ lastOp' = Op("appendPartitions", "size_ + toAdd <= capacity_", NULL,
                         <<>>)
         /\ aborted' = TRUE
         /\ UNCHANGED parts
    ELSE /\ parts' = [parts EXCEPT !.data = parts.data \o partitions]
         /\ lastOp' = Op("appendPartitions", "", NULL, <<>>)
         /\ UNCHANGED aborted

\* RowPartitions::size()
partitionsSize(p) == Len(p.data)

\* Allocation::findRun(offset): the run and the offset in it.  The runs of
\* the model are one page each.
findRun(offset) ==
    [runIndex |-> offset \div kPartitionPageSize,
     offsetInRun |-> offset % kPartitionPageSize]

\* run.numBytes()
runNumBytes(runIndex) == kPartitionPageSize

\* The byte at offsetInRun of a run: a partition number, or the zero that
\* appendPartitions pads the last batch with.
runByte(p, runIndex, offsetInRun) ==
    LET i == runIndex * kPartitionPageSize + offsetInRun
    IN  IF i < Len(p.data) THEN p.data[i + 1] ELSE 0

(***************************************************************************)
(* skip and listPartitionRows.                                             *)
(***************************************************************************)
kRangeAtFailed == "Out of range index for rangeAt()"
kNullCursor == "arithmetic on a null rowBegin"
kSkipDcheck == "VELOX_DCHECK failed in skip"

\* RowContainerIterator::currentRow()
currentRow(it) ==
    IF it.rowBegin # NULL /\ it.normalizedKeysLeft > 0
        THEN it.rowBegin + it.normalizedKeySize
        ELSE it.rowBegin

\* The first block of skip: a zero-initialized iterator is set to the first
\* row.
skipSetToFirstRow(it) ==
    IF it.endOfRun # NULL THEN it
    ELSE IF debugBuild /\ (it.rowNumber # 0 \/ it.allocationIndex # 0)
        THEN [it EXCEPT !.err = kSkipDcheck]
    ELSE IF ranges = <<>> THEN [it EXCEPT !.err = kRangeAtFailed]
    ELSE LET range == rangeAt(ranges, 0)
         IN  [it EXCEPT !.normalizedKeysLeft = numRowsWithNormalizedKey,
                        !.normalizedKeySize = originalNormalizedKeySize(cfg),
                        !.rowBegin = range.data,
                        !.endOfRun = range.data + range.size]

\* The while loop of skip.
RECURSIVE skipLoop(_, _, _)
skipLoop(it, toSkip, rowSize) ==
    IF toSkip = 0 \/ it.err # "" THEN it
    ELSE IF it.rowBegin # NULL /\
            toSkip * rowSize <= (it.endOfRun - it.rowBegin) - rowSize
        THEN [it EXCEPT !.rowBegin = it.rowBegin + toSkip * rowSize]
    ELSE IF it.rowBegin = NULL THEN [it EXCEPT !.err = kNullCursor]
    ELSE LET rowsInRun == (it.endOfRun - it.rowBegin) \div rowSize
             index == it.allocationIndex + 1
         IN  IF index >= Len(ranges)
                 THEN [it EXCEPT !.err = kRangeAtFailed,
                                 !.allocationIndex = index]
                 ELSE LET range == rangeAt(ranges, index)
                      IN  skipLoop([it EXCEPT
                                       !.allocationIndex = index,
                                       !.endOfRun = range.data + range.size,
                                       !.rowBegin = range.data],
                                   toSkip - rowsInRun, rowSize)

\* The end of skip, after its loop has left the iterator as 'it2'.
skipEnd(it2, n) ==
    IF it2.err # "" THEN it2
    ELSE [it2 EXCEPT
             !.normalizedKeysLeft =
                 IF it2.normalizedKeysLeft # 0
                     THEN it2.normalizedKeysLeft - n
                     ELSE it2.normalizedKeysLeft,
             !.rowNumber = it2.rowNumber + n]

\* skip after its first block has left the iterator as 'it'.
RECURSIVE skip(_, _)
skipFrom(iter0, n, it) ==
    IF debugBuild /\ (NumAccumulators(cfg) # 0 \/ n < 0)
        THEN [iter0 EXCEPT !.err = kSkipDcheck]
    ELSE IF it.err # "" THEN it
    ELSE IF it.rowNumber + n >= numRows
        THEN [it EXCEPT !.rowNumber = numRows, !.rowBegin = NULL]
    ELSE LET split == it.normalizedKeysLeft # 0 /\
                      it.normalizedKeysLeft < n
             it1 == IF split THEN skip(it, it.normalizedKeysLeft) ELSE it
             toSkip == IF split THEN n - it.normalizedKeysLeft ELSE n
             rowSize == IF split THEN fixedRowSize(cfg)
                        ELSE fixedRowSize(cfg) +
                             (IF it.normalizedKeysLeft > 0
                                 THEN originalNormalizedKeySize(cfg)
                                 ELSE 0)
         IN  TheOne({skipEnd(it2, n) :
                        it2 \in {skipLoop(it1, toSkip, rowSize)}})

\* RowContainer::skip(iter, numRows): the iterator afterwards; err is set
\* when the call throws.
skip(iter0, n) ==
    TheOne({skipFrom(iter0, n, it) : it \in {skipSetToFirstRow(iter0)}})

\* bits & bits::lowMask(numRows_ - startRow) in the last batch.
lastBatchMask(hits, startRow) == {j \in hits : j < numRows - startRow}

\* The bits of one batch: the positions, counted from startRow, whose
\* byte is 'partition', less those firstBatchMask and the last-batch mask
\* clear.
batchHits(p, partition, runIndex, offsetInRun, startRow, firstBatchFrom) ==
    LET equal == {j \in 0..(kBatch - 1) :
                     /\ runByte(p, runIndex, offsetInRun + j) = partition
                     /\ j >= firstBatchFrom}
    IN  IF startRow + kBatch >= numRows THEN lastBatchMask(equal, startRow)
        ELSE equal

\* The scan of listPartitionRows, as one loop over (batch, bit): st is
\*   [iter, result, startRow, runIndex, offsetInRun, firstBatchFrom, bits,
\*    loaded, done, err]
\* where 'loaded' says that 'bits' holds what is left of the current batch.
RECURSIVE listLoop(_, _, _, _)
listLoopFrom(p, partition, maxRows, st) ==
    IF st.done \/ st.err # "" THEN st
    ELSE IF ~st.inRun
    THEN \* while (numResults < maxRows && iter.rowNumber < numRows_)
         IF ~(Len(st.result) < maxRows /\ st.iter.rowNumber < numRows)
             THEN [st EXCEPT !.done = TRUE]
         ELSE LET startRow == (st.iter.rowNumber \div kBatch) * kBatch
                  run == findRun(startRow)
              IN  listLoop(p, partition, maxRows,
                      [st EXCEPT !.startRow = startRow,
                                 !.firstBatchFrom =
                                     st.iter.rowNumber - startRow,
                                 !.runIndex = run.runIndex,
                                 !.offsetInRun = run.offsetInRun,
                                 !.inRun = TRUE,
                                 !.loaded = FALSE])
    ELSE IF ~st.loaded
    THEN \* for (; offsetInRun < runEnd; offsetInRun += kBatch)
         IF ~(st.offsetInRun < runNumBytes(st.runIndex))
             THEN listLoop(p, partition, maxRows, [st EXCEPT !.inRun = FALSE])
         ELSE listLoop(p, partition, maxRows,
                  [st EXCEPT
                      !.bits = batchHits(p, partition, st.runIndex,
                                         st.offsetInRun, st.startRow,
                                         st.firstBatchFrom),
                      !.atEnd = st.startRow + kBatch >= numRows,
                      !.firstBatchFrom = 0,
                      !.loaded = TRUE])
    ELSE IF st.bits # {}
    THEN \* while (bits)
         LET hit == CHOOSE j \in st.bits : \A k \in st.bits : j <= k
             it == skip(st.iter, hit + st.startRow - st.iter.rowNumber)
             result == Append(st.result, currentRow(it))
         IN  IF it.err # "" THEN [st EXCEPT !.iter = it, !.err = it.err]
             ELSE IF Len(result) = maxRows
                 THEN LET it1 == skip(it, 1)
                      IN  [st EXCEPT !.iter = it1, !.result = result,
                                     !.err = it1.err, !.done = TRUE]
             ELSE listLoop(p, partition, maxRows,
                      [st EXCEPT !.iter = it, !.result = result,
                                 !.bits = st.bits \ {hit}])
    ELSE \* the batch is done
         IF st.atEnd
             THEN [st EXCEPT !.iter.rowNumber = numRows, !.done = TRUE]
         ELSE LET startRow == st.startRow + kBatch
                  it == IF st.iter.rowNumber # startRow
                            THEN skip(st.iter, startRow - st.iter.rowNumber)
                            ELSE st.iter
              IN  IF it.err # "" THEN [st EXCEPT !.iter = it, !.err = it.err]
                  ELSE listLoop(p, partition, maxRows,
                           [st EXCEPT !.iter = it,
                                      !.startRow = startRow,
                                      !.offsetInRun = st.offsetInRun + kBatch,
                                      !.loaded = FALSE])

\* The loop from the state 'st', which is worked out once.
listLoop(p, partition, maxRows, st) ==
    TheOne({listLoopFrom(p, partition, maxRows, from) : from \in {st}})

tableSizeUnchecked == TRUE

\* rowPartitions.size() == numRows_, the second check of listPartitionRows.
tableSizeMatches == partitionsSize(parts) = numRows

\* A call of listPartitionRows and its outcome.
ListOp(err, partition, maxRows, result) ==
    [op |-> "listPartitionRows", err |-> err, row |-> NULL, rows |-> result,
     partition |-> partition, maxRows |-> maxRows]

\* RowContainer::listPartitionRows(iter, partition, maxRows, rowPartitions,
\* result), with 'parts' for rowPartitions.
listPartitionRows(partition, maxRows) ==
    IF mutable
    THEN /\ lastOp' = ListOp(kListMutable, partition, maxRows, <<>>)
         /\ aborted' = TRUE
         /\ UNCHANGED <<iter, scan>>
    ELSE IF ~tableSizeMatches
    THEN /\ lastOp' = ListOp(kListSize, partition, maxRows, <<>>)
         /\ aborted' = TRUE
         /\ UNCHANGED <<iter, scan>>
    ELSE IF numRows = 0
    THEN /\ lastOp' = ListOp("", partition, maxRows, <<>>)
         /\ scan' = [scan EXCEPT !.partition = partition]
         /\ UNCHANGED <<iter, aborted>>
    ELSE LET st == listLoop(parts, partition, maxRows,
                       [iter |-> iter, result |-> <<>>, startRow |-> 0,
                        runIndex |-> 0, offsetInRun |-> 0,
                        firstBatchFrom |-> 0, bits |-> {}, atEnd |-> FALSE,
                        inRun |-> FALSE, loaded |-> FALSE, done |-> FALSE,
                        err |-> ""])
         IN  /\ iter' = st.iter
             /\ lastOp' = ListOp(st.err, partition, maxRows, st.result)
             /\ aborted' = (st.err # "")
             /\ scan' = [partition |-> partition,
                         listed |-> scan.listed \o st.result]

(***************************************************************************)
(* Column payloads and column statistics.  cells[row] has the values of    *)
(* the columns of types_ (a number for a fixed-width column, the bytes of  *)
(* the string or of the serialized value for the others), the             *)
(* variable-row-size counter and, for the callers, the number of stores    *)
(* each column has had since newRow and whether setAllNull has been called *)
(* on the row since.                                                       *)
(***************************************************************************)
FixedValues == 0..MaxValue

\* All byte strings of length 0..MaxStringLen over one byte value.
StringValues == {[i \in 1..n |-> 1] : n \in 0..MaxStringLen}

\* false and true.
BooleanValues == {0, 1}

\* UnknownValue: an empty struct.
UnknownValues == {0}

ValuesOf(kind) ==
    IF kind = "UNKNOWN" THEN UnknownValues
    ELSE IF kind = "BOOLEAN" THEN BooleanValues
    ELSE IF isFixedWidth(kind) THEN FixedValues
    ELSE StringValues

\* T(): the value of zeroed column memory.
ZeroValue(kind) == IF isFixedWidth(kind) THEN 0 ELSE <<>>

\* RowColumn::nullByte(): the byte of the null bit, 0 for kNotNullOffset.
nullByte(nullOffset) ==
    IF nullOffset = kNotNullOffset THEN 0 ELSE nullOffset \div 8

\* RowContainer::isNullAt(row, rowColumns_[i]): the mask of kNotNullOffset
\* is 0.
isNullAt(c, row, i) ==
    columnNullOffset(c, i) # kNotNullOffset /\
    isBitSet(row, columnNullOffset(c, i))

\* RowContainer::fixedSizeAt(column)
fixedSizeAt(c, i) == typeKindSize(types(c)[i])

variableSizeAtIgnoringNull(c, row, cell, i) == Len(cell.values[i])

\* RowContainer::variableSizeAt(row, column)
variableSizeAt(c, row, cell, i) ==
    IF isNullAt(c, row, i) THEN 0 ELSE Len(cell.values[i])

\* What the memory of a row just returned by newRow may hold in its
\* columns: zeroes when initializeRow has zeroed the row, else anything.
FreshCells(c) ==
    IF rowSizeOffset(c) # 0
        THEN {[values |-> [i \in 1..Len(types(c)) |-> ZeroValue(types(c)[i])],
               rowSize |-> 0, nulled |-> FALSE,
               stores |-> [i \in 1..Len(types(c)) |-> 0]]}
        ELSE {[values |-> v, rowSize |-> 0, nulled |-> FALSE,
               stores |-> [i \in 1..Len(types(c)) |-> 0]] :
                 v \in [1..Len(types(c)) -> FixedValues]}

\* 'f' with 'value' at 'key', which may be new.
Put(f, key, value) ==
    [k \in DOMAIN f \cup {key} |-> IF k = key THEN value ELSE f[k]]

\* 'f' without the keys in 'gone'.
Drop(f, gone) == [k \in DOMAIN f \ gone |-> f[k]]

\* The cells of a row after store(decoded, rowIndex, row, columnIndex);
\* 'value' is decoded.valueAt(rowIndex).  storeNoNulls writes the value;
\* storeWithNulls and storeComplexType write it for a non-null source and
\* leave the payload for a null one.  RowSizeTracker adds the bytes taken
\* from the string allocator.
storeCell(c, cell, columnIndex, isNull, value) ==
    IF storeNullOffset(c, columnIndex) # kNotNullOffset /\ isNull
    THEN [cell EXCEPT !.stores[columnIndex] = @ + 1]
    ELSE [cell EXCEPT
             !.stores[columnIndex] = @ + 1,
             !.values[columnIndex] = value,
             !.rowSize = IF isFixedWidth(types(c)[columnIndex]) THEN @
                         ELSE @ + Len(value)]

\* RowColumn::Stats::addNullCell()
addNullCell(st) == [st EXCEPT !.nullCount = @ + 1]

\* RowColumn::Stats::addCellSize(bytes): the first non-null cell sets the
\* minimum and the maximum, the later ones narrow or widen them.
addCellSize(st, bytes) ==
    [st EXCEPT !.nonNullCount = @ + 1, !.sumBytes = @ + bytes,
               !.minBytes = IF st.nonNullCount = 0 THEN bytes
                            ELSE Min(@, bytes),
               !.maxBytes = IF st.nonNullCount = 0 THEN bytes
                            ELSE Max(@, bytes)]

\* RowColumn::Stats::invalidateMinMaxColumnStats()
invalidateMinMaxStats(st) == [st EXCEPT !.minMaxStatsValid = FALSE]

\* RowContainer::invalidateMinMaxColumnStats(): every column's.
invalidateMinMaxColumnStats(sts) ==
    [i \in 1..Len(sts) |-> invalidateMinMaxStats(sts[i])]

\* RowColumn::Stats::minBytes() and maxBytes(): NULL stands for
\* std::nullopt, the answer when no cell was counted or the pair is invalid.
minBytes(st) ==
    IF st.nonNullCount = 0 \/ ~st.minMaxStatsValid THEN NULL ELSE st.minBytes

maxBytes(st) ==
    IF st.nonNullCount = 0 \/ ~st.minMaxStatsValid THEN NULL ELSE st.maxBytes

\* RowColumn::Stats::removeOrUpdateCellStats(bytes, wasNull, setToNull)
removeOrUpdateCellStats(st, bytes, wasNull, setToNull) ==
    invalidateMinMaxStats(
        IF wasNull
            THEN IF ~setToNull THEN [st EXCEPT !.nullCount = @ - 1] ELSE st
            ELSE [st EXCEPT !.nonNullCount = @ - 1,
                            !.sumBytes = @ - bytes,
                            !.nullCount = IF setToNull THEN @ + 1 ELSE @])

\* updateColumnStats(decoded, rowIndex, row, columnIndex), 'row' and 'cell'
\* being the row after the store.
updateColumnStatsDecoded(c, sts, row, cell, columnIndex, isNull) ==
    IF sts = <<>> THEN sts
    ELSE [sts EXCEPT ![columnIndex] =
             IF isNull THEN addNullCell(@)
             ELSE IF isFixedWidth(types(c)[columnIndex])
                 THEN addCellSize(@, fixedSizeAt(c, columnIndex))
             ELSE addCellSize(@, variableSizeAt(c, row, cell, columnIndex))]

\* updateColumnStats(row, columnIndex)
updateColumnStats(c, sts, row, cell, columnIndex) ==
    [sts EXCEPT ![columnIndex] =
        IF isNullAt(c, row, columnIndex) THEN addNullCell(@)
        ELSE IF isFixedWidth(types(c)[columnIndex])
            THEN addCellSize(@, fixedSizeAt(c, columnIndex))
        ELSE addCellSize(@, variableSizeAt(c, row, cell, columnIndex))]

\* The loop of removeOrUpdateRowColumnStats at column i.
removedCellStats(c, sts, row, cell, i, setToNull) ==
    IF isNullAt(c, row, i)
        THEN removeOrUpdateCellStats(sts[i], 0, TRUE, setToNull)
    ELSE IF isFixedWidth(types(c)[i])
        THEN removeOrUpdateCellStats(sts[i], fixedSizeAt(c, i), FALSE,
                                     setToNull)
    ELSE removeOrUpdateCellStats(sts[i], variableSizeAt(c, row, cell, i),
                                 FALSE, setToNull)

removeOrUpdateRowColumnStatsKeepingMinMax(c, sts, row, cell, setToNull) ==
    [i \in 1..Len(sts) |->
        [removedCellStats(c, sts, row, cell, i, setToNull)
            EXCEPT !.minMaxStatsValid = sts[i].minMaxStatsValid]]

\* removeOrUpdateRowColumnStats(row, setToNull)
removeOrUpdateRowColumnStats(c, sts, row, cell, setToNull) ==
    invalidateMinMaxColumnStats(
        [i \in 1..Len(sts) |->
            removedCellStats(c, sts, row, cell, i, setToNull)])

eraseRowsStatsKept(c, sts, erased) == sts

\* The statistics after the loop of eraseRows has taken the rows of
\* 'erased', each as it was before the call.
RECURSIVE eraseRowsStats(_, _, _)
eraseRowsStats(c, sts, erased) ==
    IF erased = <<>> THEN sts
    ELSE eraseRowsStats(c,
             removeOrUpdateRowColumnStats(c, sts, RowAt(rows, Head(erased)),
                                          cells[Head(erased)], FALSE),
             Tail(erased))

(***************************************************************************)
(* Serialized rows: the null bytes, then the columns of types_.            *)
(***************************************************************************)
\* The bits of the flagBytes_ bytes at row + rowColumns_[0].nullByte().
FlagWindow(c) ==
    LET first == nullByte(columnNullOffset(c, 1)) * 8
    IN  first..(first + flagBytes(c) * 8 - 1)

\* A column of a serialized row: 'bytes' is what the column takes in the
\* blob.  A fixed-width column is copied as it is in the row;
\* extractVariableSizeAt writes the size and the bytes, a size of 0 for a
\* null column.
extractColumn(c, row, cell, j) ==
    IF isFixedWidth(types(c)[j])
        THEN [bytes |-> typeKindSize(types(c)[j]), value |-> cell.values[j]]
    ELSE IF isNullAt(c, row, j) THEN [bytes |-> 4, value |-> <<>>]
    ELSE [bytes |-> 4 + Len(cell.values[j]), value |-> cell.values[j]]

\* One iteration of the writing loop of extractSerializedRows.
extractSerializedRow(c, row, cell) ==
    [flags |-> row.bits \cap FlagWindow(c),
     columns |-> [j \in 1..Len(types(c)) |-> extractColumn(c, row, cell, j)]]

RECURSIVE SumBytes(_)
SumBytes(columns) ==
    IF columns = <<>> THEN 0
    ELSE Head(columns).bytes + SumBytes(Tail(columns))

\* 'offset' at the end of an iteration of the writing loop.
serializedSize(c, blob) == flagBytes(c) + SumBytes(blob.columns)

\* fixedWidthRowSize in extractSerializedRows.
fixedWidthRowSize(c) ==
    SumSizes(SelectSeq(types(c), isFixedWidth))

RECURSIVE variableBytes(_, _, _, _)
\* What the pre-summing loop adds for one row, columns j and up.
variableBytes(c, row, cell, j) ==
    IF j > Len(types(c)) THEN 0
    ELSE (IF isFixedWidth(types(c)[j]) THEN 0
          ELSE 4 + variableSizeAt(c, row, cell, j))
         + variableBytes(c, row, cell, j + 1)

RECURSIVE totalBytes(_, _, _, _)
\* totalBytes in extractSerializedRows for the rows 'batch'.
totalBytes(c, allRows, allCells, batch) ==
    IF batch = <<>> THEN 0
    ELSE flagBytes(c) + fixedWidthRowSize(c)
         + variableBytes(c, RowAt(allRows, Head(batch)),
                         allCells[Head(batch)], 1)
         + totalBytes(c, allRows, allCells, Tail(batch))

RECURSIVE totalWritten(_, _)
totalWritten(c, blobs) ==
    IF blobs = <<>> THEN 0
    ELSE serializedSize(c, Head(blobs)) + totalWritten(c, Tail(blobs))

kTotalWritten == "totalWritten == totalBytes"

\* The row's bits after storeSerializedRow has copied the flag bytes.
loadBits(c, row, blob) == (row.bits \ FlagWindow(c)) \cup blob.flags

RECURSIVE copiedBytes(_, _, _)
\* The bytes storeVariableSizeAt takes from the string allocator, columns j
\* and up.
copiedBytes(c, blob, j) ==
    IF j > Len(types(c)) THEN 0
    ELSE (IF isFixedWidth(types(c)[j]) THEN 0
          ELSE Len(blob.columns[j].value))
         + copiedBytes(c, blob, j + 1)

\* The cells after storeSerializedRow: every column is written from the
\* blob; storeVariableSizeAt copies 'size' bytes to the string allocator.
loadCell(c, cell, blob) ==
    [cell EXCEPT
        !.values = [j \in 1..Len(types(c)) |-> blob.columns[j].value],
        !.rowSize = @ + copiedBytes(c, blob, 1)]

RECURSIVE loadStats(_, _, _, _, _)
\* The calls of updateColumnStats(row, i) of storeSerializedRow, columns j
\* and up.
loadStats(c, sts, row, cell, j) ==
    IF j > Len(types(c)) THEN sts
    ELSE loadStats(c, updateColumnStats(c, sts, row, cell, j), row, cell,
                   j + 1)

(***************************************************************************)
(* Reading a column: hash and compare.                                     *)
(***************************************************************************)
kNullHash == <<"kNullHash">>

hashTypedIgnoringNull(c, row, cell, column, nullable) ==
    <<types(c)[column], cell.values[column]>>

\* RowContainer::hashTyped for one row, before mixing: the hash of a value
\* is taken to be injective in the kind and the value.
hashTyped(c, row, cell, column, nullable) ==
    IF nullable /\ isNullAt(c, row, column) THEN kNullHash
    ELSE <<types(c)[column], cell.values[column]>>

\* RowContainer::hash(column, rows, mix = false, result) for one row.
hash(c, row, cell, column) ==
    IF types(c)[column] = "UNKNOWN" THEN kNullHash
    ELSE hashTyped(c, row, cell, column,
                   column > NumKeys(c) \/ c.nullableKeys)

\* bits::hashMix(upper, lower), taken to be injective.
hashMix(upper, lower) == <<"hashMix", upper, lower>>

\* RowContainer::hash(column, rows, mix, result): the result vector after
\* the call, 'result' being the vector before it.
hashRows(c, allRows, allCells, column, batch, mix, result) ==
    [i \in 1..Len(batch) |->
        LET h == hash(c, RowAt(allRows, batch[i]), allCells[batch[i]], column)
        IN  IF mix THEN hashMix(result[i], h) ELSE h]

\* The order of two values of a column.
compareValues(kind, left, right) ==
    IF left = right THEN 0
    ELSE IF isFixedWidth(kind)
        THEN (IF left < right THEN -1 ELSE 1)
    ELSE (IF Len(left) < Len(right) THEN -1 ELSE 1)

\* RowContainer::compare(left, right, columnIndex, flags) with nulls first,
\* ascending.
compare(c, left, leftCell, right, rightCell, column) ==
    LET leftIsNull == isNullAt(c, left, column)
        rightIsNull == isNullAt(c, right, column)
    IN  IF leftIsNull /\ rightIsNull THEN 0
        ELSE IF leftIsNull THEN -1
        ELSE IF rightIsNull THEN 1
        ELSE compareValues(types(c)[column], leftCell.values[column],
                           rightCell.values[column])

\* The same with the flags: nulls go first or last whatever the direction,
\* which turns the order of two values only.
compareWithFlags(c, left, leftCell, right, rightCell, column, flags) ==
    LET leftIsNull == isNullAt(c, left, column)
        rightIsNull == isNullAt(c, right, column)
        result == compareValues(types(c)[column], leftCell.values[column],
                                rightCell.values[column])
    IN  IF leftIsNull
            THEN (IF rightIsNull THEN 0
                  ELSE IF flags.nullsFirst THEN -1 ELSE 1)
        ELSE IF rightIsNull THEN (IF flags.nullsFirst THEN 1 ELSE -1)
        ELSE IF flags.ascending THEN result
        ELSE -result

\* RowContainer::compare(row, column, decoded, index, flags): the row
\* against decoded.valueAt(index), 'source' being that value or a null.
compareDecoded(c, row, cell, column, source, flags) ==
    LET rowIsNull == isNullAt(c, row, column)
        result == compareValues(types(c)[column], cell.values[column],
                                source.value)
    IN  IF rowIsNull
            THEN (IF source.isNull THEN 0
                  ELSE IF flags.nullsFirst THEN -1 ELSE 1)
        ELSE IF source.isNull THEN (IF flags.nullsFirst THEN 1 ELSE -1)
        ELSE IF flags.ascending THEN result
        ELSE -result

(***************************************************************************)
(* RowComparator.                                                          *)
(***************************************************************************)
\* core::SortOrder
SortOrders == {[ascending |-> a, nullsFirst |-> n] : a, n \in BOOLEAN}

\* CompareFlags{nullsFirst, ascending, equalsOnly = false} of a key.
compareFlags(key) ==
    [nullsFirst |-> key.order.nullsFirst, ascending |-> key.order.ascending,
     equalsOnly |-> FALSE]

\* RowComparator::RowComparator: keyInfo_, the channel of each sorting key
\* with its order.
RowComparator(sortingKeys, sortingOrders) ==
    [i \in 1..Len(sortingKeys) |->
        [channel |-> sortingKeys[i], order |-> sortingOrders[i]]]

\* The loop of RowComparator::compare(lhs, rhs) from key i on.
RECURSIVE compareFrom(_, _, _, _, _, _, _)
compareFrom(c, keyInfo, lhs, lhsCell, rhs, rhsCell, i) ==
    IF i > Len(keyInfo) THEN 0
    ELSE LET result == compareWithFlags(c, lhs, lhsCell, rhs, rhsCell,
                                        keyInfo[i].channel,
                                        compareFlags(keyInfo[i]))
         IN  IF result # 0 THEN result
             ELSE compareFrom(c, keyInfo, lhs, lhsCell, rhs, rhsCell, i + 1)

\* The same taking the keys from the last to the first.
RowComparatorCompareLastKeyFirst(c, keyInfo, lhs, lhsCell, rhs, rhsCell) ==
    IF lhs.addr = rhs.addr THEN 0
    ELSE compareFrom(c, [i \in 1..Len(keyInfo) |->
                            keyInfo[Len(keyInfo) + 1 - i]],
                     lhs, lhsCell, rhs, rhsCell, 1)

\* RowComparator::compare(lhs, rhs)
RowComparatorCompare(c, keyInfo, lhs, lhsCell, rhs, rhsCell) ==
    IF lhs.addr = rhs.addr THEN 0
    ELSE compareFrom(c, keyInfo, lhs, lhsCell, rhs, rhsCell, 1)

\* RowComparator::operator()(lhs, rhs)
RowComparatorLess(c, keyInfo, lhs, lhsCell, rhs, rhsCell) ==
    RowComparatorCompare(c, keyInfo, lhs, lhsCell, rhs, rhsCell) < 0

\* The loop of RowComparator::compare(decodedVectors, index, other) from key
\* i on: the container's first result that is not 0, or 0.  'decoded' is
\* the tuple at 'index', one source per channel.
RECURSIVE compareDecodedFrom(_, _, _, _, _, _)
compareDecodedFrom(c, keyInfo, decoded, other, otherCell, i) ==
    IF i > Len(keyInfo) THEN 0
    ELSE LET result == compareDecoded(c, other, otherCell,
                                      keyInfo[i].channel,
                                      decoded[keyInfo[i].channel],
                                      compareFlags(keyInfo[i]))
         IN  IF result # 0 THEN result
             ELSE compareDecodedFrom(c, keyInfo, decoded, other, otherCell,
                                     i + 1)

RowComparatorCompareDecodedNotNegated(c, keyInfo, decoded, other, otherCell) ==
    compareDecodedFrom(c, keyInfo, decoded, other, otherCell, 1)

\* RowComparator::compare(decodedVectors, index, other): return -result.
RowComparatorCompareDecoded(c, keyInfo, decoded, other, otherCell) ==
    -compareDecodedFrom(c, keyInfo, decoded, other, otherCell, 1)

\* RowComparator::operator()(decodedVectors, index, other)
RowComparatorLessDecoded(c, keyInfo, decoded, other, otherCell) ==
    RowComparatorCompareDecoded(c, keyInfo, decoded, other, otherCell) < 0

(***************************************************************************)
(* Configurations and the initial state.                                   *)
(***************************************************************************)
FixedAccumulator ==
    [isFixedSize |-> TRUE, fixedSize |-> 8, usesExternalMemory |-> FALSE,
     alignment |-> 8]

\* One integer key, with every combination of nullable keys, an accumulator,
\* a dependent column and the probed flag.
Configs ==
    {[keyTypes |-> <<"INTEGER">>,
      nullableKeys |-> nullable,
      accumulators |-> IF withAccumulator THEN <<FixedAccumulator>> ELSE <<>>,
      dependentTypes |-> IF withDependent THEN <<"BIGINT">> ELSE <<>>,
      hasNext |-> FALSE,
      hasProbedFlag |-> probed,
      hasNormalizedKeys |-> FALSE] :
        nullable \in BOOLEAN, withAccumulator \in BOOLEAN,
        withDependent \in BOOLEAN, probed \in BOOLEAN}

\* A zero-initialized RowContainerIterator.
ZeroIterator ==
    [allocationIndex |-> 0, rowBegin |-> NULL, endOfRun |-> NULL,
     rowNumber |-> 0, normalizedKeysLeft |-> 0, normalizedKeySize |-> 0,
     err |-> ""]

NoScan == [partition |-> -1, listed |-> <<>>]

\* No thread is in setProbedFlag: the calls of it, the rows passed to them
\* and whether a null entry has been passed to one.
NoProbers == [calls |-> <<>>, rows |-> {}, nulls |-> FALSE]

\* No row has been returned by newRow, no destroy hook has been called and
\* no variable-width payload has been released.
NoLifetimes == [born |-> <<>>, destroyed |-> <<>>, released |-> <<>>]

\* No row has been serialized.
NoSerialized == [rows |-> <<>>, blobs |-> <<>>]

InitContainer(c) ==
    /\ cfg = c
    /\ ranges = <<>>
    /\ rows = <<>>
    /\ numRows = 0
    /\ numFreeRows = 0
    /\ numRowsWithNormalizedKey = 0
    /\ normalizedKeySize = originalNormalizedKeySize(c)
    /\ firstFreeRow = NULL
    /\ mutable = TRUE
    /\ parts = RowPartitions(0)
    /\ iter = ZeroIterator
    /\ lastOp = Op("RowContainer", "", NULL, <<>>)
    /\ prevErase = NoOp
    /\ aborted = FALSE
    /\ handedOut = {}
    /\ eraseLog = <<>>
    /\ scan = NoScan
    /\ cells = <<>>
    /\ stats = NoStats(c)
    /\ serialized = NoSerialized
    /\ probers = NoProbers
    /\ lifetimes = NoLifetimes

Init ==
    /\ debugBuild \in BOOLEAN
    /\ \E c \in Configs : InitContainer(c)

(***************************************************************************)
(* The callers.  A caller makes calls until one throws (a failed           *)
(* VELOX_CHECK, a failed arena allocation) and none after that.            *)
(***************************************************************************)
AllocatedRows == {rows[i].addr : i \in 1..Len(rows)}

\* The batches of at most n rows a caller may pass to eraseRows: rows it
\* once got from newRow, live or not, repeated or not.
Batches(n) == UNION {[1..k -> AllocatedRows] : k \in 1..n}

\* What the next call leaves in prevErase.
PrevErase == IF lastOp.op = "eraseRows" THEN lastOp ELSE NoOp

\* What a call on the container leaves alone.
Frame ==
    /\ prevErase' = PrevErase
    /\ UNCHANGED <<cfg, debugBuild, probers, lifetimes,
                   mutable, parts, iter, scan>>
    /\ UNCHANGED dataVars

\* newRow while the arena holds fewer than maxRows rows; the pool may fail
\* when mayFail.
CallNewRow(maxRows, mayFail) ==
    /\ ~aborted
    /\ firstFreeRow # NULL \/ Len(rows) < maxRows
    /\ \E allocOk \in BOOLEAN :
          /\ allocOk \/ (mayFail /\ firstFreeRow = NULL)
          /\ newRow(allocOk)
    /\ Frame

CallEraseRows(maxBatch) ==
    /\ ~aborted
    /\ \E batch \in Batches(maxBatch) : eraseRows(batch)
    /\ Frame

CallClear ==
    /\ ~aborted
    /\ clear
    /\ prevErase' = PrevErase
    /\ UNCHANGED <<cfg, debugBuild, probers, lifetimes,
                   parts, iter, scan, serialized>>

(***************************************************************************)
(* The lifecycle specification: every configuration; rows are allocated,   *)
(* stored to, set to null, erased and cleared.                             *)
(***************************************************************************)
NewRow == CallNewRow(MaxRows, FALSE)

EraseRows == CallEraseRows(MaxBatch)

SetAllNull ==
    /\ ~aborted
    /\ \E addr \in handedOut : setAllNull(addr)
    /\ Frame

Store ==
    /\ ~aborted
    /\ \E addr \in handedOut, columnIndex \in 1..Len(types(cfg)),
          isNull \in BOOLEAN : store(addr, columnIndex, isNull)
    /\ Frame

Clear == CallClear

Next ==
    \/ NewRow
    \/ EraseRows
    \/ SetAllNull
    \/ Store
    \/ Clear

Spec == Init /\ [][Next]_vars

(***************************************************************************)
(* The free-list specification: one configuration; rows are allocated      *)
(* (the pool may fail), erased and cleared.                                *)
(***************************************************************************)
FreeListConfig ==
    [keyTypes |-> <<"INTEGER", "INTEGER">>, nullableKeys |-> FALSE,
     accumulators |-> <<>>, dependentTypes |-> <<"BIGINT">>,
     hasNext |-> FALSE, hasProbedFlag |-> FALSE, hasNormalizedKeys |-> TRUE]

\* No VELOX_DCHECK reads anything but mutable_, which stays true here: the
\* builds do not differ.
FreeListInit ==
    /\ debugBuild = FALSE
    /\ InitContainer(FreeListConfig)

FreeListNewRow == CallNewRow(MaxFreeListRows, TRUE)

FreeListEraseRows == CallEraseRows(MaxBatch)

FreeListClear == CallClear

FreeListNext ==
    \/ FreeListNewRow
    \/ FreeListEraseRows
    \/ FreeListClear

FreeListSpec == FreeListInit /\ [][FreeListNext]_vars

(***************************************************************************)
(* The sealing specification: as the free-list specification, with         *)
(* createRowPartitions.                                                    *)
(***************************************************************************)
SealInit ==
    /\ debugBuild \in BOOLEAN
    /\ InitContainer(FreeListConfig)

SealNewRow == CallNewRow(MaxSealRows, FALSE)

SealEraseRows == CallEraseRows(MaxBatch)

SealClear == CallClear

CreateRowPartitions ==
    /\ ~aborted
    /\ createRowPartitions
    /\ prevErase' = PrevErase
    /\ UNCHANGED <<cfg, debugBuild, probers, lifetimes,
                   containerVars, iter, scan,
                   handedOut, eraseLog>>
    /\ UNCHANGED dataVars

SealNext ==
    \/ SealNewRow
    \/ SealEraseRows
    \/ SealClear
    \/ CreateRowPartitions

SealSpec == SealInit /\ [][SealNext]_vars

(***************************************************************************)
(* The listing specification: a join build.  Rows are allocated and erased *)
(* and normalized keys may be disabled while the container is mutable; it  *)
(* is sealed, the partition table is filled and one partition is listed    *)
(* in calls of varying maxRows, all with the same iterator.                *)
(***************************************************************************)
PartitionIds == {0, 1}

ListConfigs ==
    {[keyTypes |-> <<"INTEGER">>, nullableKeys |-> FALSE,
      accumulators |-> <<>>, dependentTypes |-> <<>>,
      hasNext |-> FALSE, hasProbedFlag |-> FALSE,
      hasNormalizedKeys |-> normalized] : normalized \in BOOLEAN}

ListInit ==
    /\ debugBuild \in BOOLEAN
    /\ \E c \in ListConfigs : InitContainer(c)

ListNewRow ==
    /\ mutable
    /\ CallNewRow(MaxListRows, FALSE)

ListEraseRows ==
    /\ mutable
    /\ numFreeRows < MaxListErased
    /\ CallEraseRows(1)

\* RowContainer::disableNormalizedKeys(): the rows allocated from now on
\* have no normalized key before them.
disableNormalizedKeys ==
    /\ normalizedKeySize' = 0
    /\ lastOp' = Op("disableNormalizedKeys", "", NULL, <<>>)
    /\ UNCHANGED <<ranges, rows, numRows, numFreeRows,
                   numRowsWithNormalizedKey, firstFreeRow, aborted,
                   handedOut, eraseLog>>

DisableNormalizedKeys ==
    /\ ~aborted
    /\ mutable
    /\ normalizedKeySize # 0
    /\ disableNormalizedKeys
    /\ Frame

ListClear == CallClear

ListCreateRowPartitions == CreateRowPartitions

AppendPartitions ==
    /\ ~aborted
    /\ ~mutable
    /\ scan = NoScan
    /\ \E partitions \in UNION {[1..k -> PartitionIds] : k \in 1..MaxAppend} :
          appendPartitions(partitions)
    /\ prevErase' = PrevErase
    /\ UNCHANGED <<cfg, debugBuild, probers, lifetimes,
                   containerVars, mutable, iter, scan,
                   handedOut, eraseLog>>
    /\ UNCHANGED dataVars

\* One more call of the scan of partition scan.partition, or the first call
\* of a scan.
ListPartitionRows ==
    /\ ~aborted
    /\ \E partition \in PartitionIds, maxRows \in 1..MaxListBatch :
          /\ scan.partition \in {-1, partition}
          /\ listPartitionRows(partition, maxRows)
    /\ prevErase' = PrevErase
    /\ UNCHANGED <<cfg, debugBuild, probers, lifetimes,
                   containerVars, mutable, parts,
                   handedOut, eraseLog>>
    /\ UNCHANGED dataVars

ListNext ==
    \/ ListNewRow
    \/ ListEraseRows
    \/ DisableNormalizedKeys
    \/ ListClear
    \/ ListCreateRowPartitions
    \/ AppendPartitions
    \/ ListPartitionRows

ListSpec == ListInit /\ [][ListNext]_vars

(***************************************************************************)
(* The iteration specification: rows are allocated and erased and          *)
(* normalized keys may be disabled; then the caller moves one iterator,    *)
(* zero-initialized, with calls of skip.  scan.listed logs the numRows     *)
(* arguments of the calls made on the iterator.                            *)
(***************************************************************************)
SkipInit ==
    /\ debugBuild \in BOOLEAN
    /\ \E c \in ListConfigs : InitContainer(c)

SkipNewRow ==
    /\ scan = NoScan
    /\ CallNewRow(MaxSkipRows, FALSE)

SkipEraseRows ==
    /\ scan = NoScan
    /\ CallEraseRows(1)

SkipDisableNormalizedKeys ==
    /\ scan = NoScan
    /\ DisableNormalizedKeys

SkipClear ==
    /\ scan = NoScan
    /\ CallClear

\* A call of skip and its outcome; row is iter.currentRow() after it.
SkipOp(err, n, row) ==
    [op |-> "skip", err |-> err, row |-> row, rows |-> <<>>, n |-> n]

\* skip(iter, n) on the caller's iterator.
Skip ==
    /\ ~aborted
    /\ Len(scan.listed) < MaxSkipCalls
    /\ \E n \in 0..numRows :
          LET it == skip(iter, n)
          IN  /\ iter' = it
              /\ lastOp' = SkipOp(it.err, n, currentRow(it))
              /\ aborted' = (it.err # "")
              /\ scan' = [scan EXCEPT !.listed = Append(scan.listed, n)]
    /\ prevErase' = PrevErase
    /\ UNCHANGED <<cfg, debugBuild, probers, lifetimes,
                   containerVars, mutable, parts,
                   handedOut, eraseLog>>
    /\ UNCHANGED dataVars

SkipNext ==
    \/ SkipNewRow
    \/ SkipEraseRows
    \/ SkipDisableNormalizedKeys
    \/ SkipClear
    \/ Skip

SkipSpec == SkipInit /\ [][SkipNext]_vars

(***************************************************************************)
(* The scan of a sealed container: rows are allocated, normalized keys may *)
(* be disabled, the container is sealed and the partition table filled;    *)
(* then the caller moves one iterator with calls of listPartitionRows, all *)
(* of one partition, and of skip, and goes on listing for as long as a     *)
(* call changes anything.                                                  *)
(***************************************************************************)
ScanInit ==
    /\ debugBuild = FALSE
    /\ \E c \in ListConfigs : InitContainer(c)

ScanNewRow ==
    /\ mutable
    /\ CallNewRow(MaxScanRows, FALSE)

ScanDisableNormalizedKeys == DisableNormalizedKeys

ScanCreateRowPartitions ==
    /\ mutable
    /\ CreateRowPartitions

ScanAppendPartitions ==
    /\ iter = ZeroIterator
    /\ lastOp.op # "skip"
    /\ AppendPartitions

ScanListPartitionRows == ListPartitionRows

\* skip(iter, n) on the iterator of the scan.
ScanSkip ==
    /\ ~aborted
    /\ ~mutable
    /\ \E n \in 0..MaxScanSkip :
          LET it == skip(iter, n)
          IN  /\ iter' = it
              /\ lastOp' = SkipOp(it.err, n, currentRow(it))
              /\ aborted' = (it.err # "")
    /\ prevErase' = PrevErase
    /\ UNCHANGED <<cfg, debugBuild, probers, lifetimes,
                   containerVars, mutable, parts,
                   scan, handedOut, eraseLog>>
    /\ UNCHANGED dataVars

ScanNext ==
    \/ ScanNewRow
    \/ ScanDisableNormalizedKeys
    \/ ScanCreateRowPartitions
    \/ ScanAppendPartitions
    \/ ScanListPartitionRows
    \/ ScanSkip

ScanSpec == ScanInit /\ [][ScanNext]_vars

ScanFairSpec == ScanSpec /\ WF_vars(ScanListPartitionRows)

(***************************************************************************)
(* Callers that store values: the container with its column payloads and   *)
(* statistics.  The specifications above leave cells, stats and serialized *)
(* alone, as nothing they check reads them.                                *)
(***************************************************************************)
DataFrame ==
    /\ prevErase' = PrevErase
    /\ UNCHANGED <<cfg, debugBuild, probers, lifetimes,
                   mutable, parts, iter, scan>>

\* The batches of at most n distinct rows of 'live'.
LiveBatches(live, n) ==
    {b \in UNION {[1..k -> live] : k \in 1..n} :
        \A i, j \in 1..Len(b) : i # j => b[i] # b[j]}

\* No counter of the column statistics has left -MaxStat..MaxStat.
StatsInRange ==
    \A i \in 1..Len(stats) :
        /\ stats[i].nullCount \in -MaxStat..MaxStat
        /\ stats[i].nonNullCount \in -MaxStat..MaxStat

\* newRow: the columns of the row hold what initializeRow leaves there.
DataNewRow(maxRows) ==
    /\ ~aborted
    /\ StatsInRange
    /\ firstFreeRow # NULL \/ Len(rows) < maxRows
    /\ newRow(TRUE)
    /\ IF lastOp'.err = ""
          THEN \E fresh \in FreshCells(cfg) :
                  cells' = Put(cells, lastOp'.row, fresh)
          ELSE UNCHANGED cells
    /\ UNCHANGED <<stats, serialized>>
    /\ DataFrame

\* What a caller may store in a column of a kind: any value, or a null.
AnySource(kind) ==
    {[isNull |-> FALSE, value |-> v] : v \in ValuesOf(kind)} \cup
    {[isNull |-> TRUE, value |-> ZeroValue(kind)]}

\* The largest value of the kind, not null.
NonNullSource(kind) ==
    {[isNull |-> FALSE,
      value |-> IF isFixedWidth(kind) THEN MaxValue
                ELSE [i \in 1..MaxStringLen |-> 1]]}

\* Every column of the row has been stored since newRow.
FullyStored(addr) ==
    \A j \in 1..Len(types(cfg)) : cells[addr].stores[j] > 0

\* store of a value, or of a null unless nonNull, in a column nothing has
\* been stored in since newRow; the key of a container without nullable
\* keys is never given a null.
DataStore(nonNull) ==
    /\ ~aborted
    /\ StatsInRange
    /\ \E addr \in handedOut, columnIndex \in 1..Len(types(cfg)) :
          \E source \in (IF nonNull
                            THEN NonNullSource(types(cfg)[columnIndex])
                            ELSE AnySource(types(cfg)[columnIndex])) :
             /\ cells[addr].stores[columnIndex] = 0
             /\ source.isNull =>
                   storeNullOffset(cfg, columnIndex) # kNotNullOffset
             /\ store(addr, columnIndex, source.isNull)
             /\ IF lastOp'.err # "" THEN UNCHANGED <<cells, stats>>
                ELSE LET cell == storeCell(cfg, cells[addr], columnIndex,
                                           source.isNull, source.value)
                     IN  /\ cells' = Put(cells, addr, cell)
                         /\ stats' = updateColumnStatsDecoded(
                                         cfg, stats, RowAt(rows', addr), cell,
                                         columnIndex, source.isNull)
    /\ UNCHANGED serialized
    /\ DataFrame

\* setAllNull on one of 'live', once in the life of a row.
DataSetAllNull(live) ==
    /\ ~aborted
    /\ StatsInRange
    /\ \E addr \in live :
          /\ ~cells[addr].nulled
          /\ setAllNull(addr)
          /\ cells' = Put(cells, addr, [cells[addr] EXCEPT !.nulled = TRUE])
          /\ stats' = IF lastOp'.err # "" THEN stats
                      ELSE removeOrUpdateRowColumnStats(
                               cfg, stats, RowAt(rows, addr), cells[addr],
                               TRUE)
    /\ UNCHANGED serialized
    /\ DataFrame

DataEraseRows(live, maxBatch) ==
    /\ ~aborted
    /\ StatsInRange
    /\ \E batch \in LiveBatches(live, maxBatch) :
          LET r == eraseLoop(cfg, rows, firstFreeRow, eraseOrder(batch), 1)
              erased == SubSeq(eraseOrder(batch), 1, r.done)
          IN  /\ eraseRows(batch)
              /\ stats' = eraseRowsStats(cfg, stats, erased)
              /\ cells' = Drop(cells, SeqToSet(erased))
    /\ UNCHANGED serialized
    /\ DataFrame

DataClear == CallClear

ExtractOp(err, batch, bytes, written) ==
    [op |-> "extractSerializedRows", err |-> err, row |-> NULL,
     rows |-> batch, totalBytes |-> bytes, totalWritten |-> written]

\* extractSerializedRows(rows, result) for a batch of live rows.
ExtractSerializedRows(maxBatch) ==
    /\ ~aborted
    /\ \E batch \in LiveBatches(handedOut, maxBatch) :
          LET blobs == [i \in 1..Len(batch) |->
                           extractSerializedRow(cfg, RowAt(rows, batch[i]),
                                                cells[batch[i]])]
              bytes == totalBytes(cfg, rows, cells, batch)
              written == totalWritten(cfg, blobs)
              err == IF written = bytes THEN "" ELSE kTotalWritten
          IN  /\ serialized' = [rows |-> batch, blobs |-> blobs]
              /\ lastOp' = ExtractOp(err, batch, bytes, written)
              /\ aborted' = (err # "")
    /\ UNCHANGED <<containerVars, handedOut, eraseLog, cells, stats>>
    /\ DataFrame

LoadOp(addr, index) ==
    [op |-> "storeSerializedRow", err |-> "", row |-> addr, rows |-> <<>>,
     index |-> index]

\* storeSerializedRow(vector, index, row) into a row nothing has been
\* stored in and that is none of the serialized ones.
StoreSerializedRow ==
    /\ ~aborted
    /\ \E index \in 1..Len(serialized.blobs), addr \in handedOut :
          LET i == RowIndex(rows, addr)
              blob == serialized.blobs[index]
              row == [rows[i] EXCEPT !.bits = loadBits(cfg, rows[i], blob)]
              cell == loadCell(cfg, cells[addr], blob)
          IN  /\ addr \notin SeqToSet(serialized.rows)
              /\ \A j \in 1..Len(types(cfg)) : cells[addr].stores[j] = 0
              /\ rows' = [rows EXCEPT ![i] = row]
              /\ cells' = Put(cells, addr,
                     [cell EXCEPT !.stores =
                         [j \in 1..Len(types(cfg)) |-> 1]])
              /\ stats' = loadStats(cfg, stats, row, cell, 1)
              /\ lastOp' = LoadOp(addr, index)
    /\ UNCHANGED <<ranges, numRows, numFreeRows, numRowsWithNormalizedKey,
                   normalizedKeySize, firstFreeRow, aborted, handedOut,
                   eraseLog, serialized>>
    /\ DataFrame

(***************************************************************************)
(* Rows are built by stores and setAllNull, then serialized, then loaded   *)
(* into rows newRow has just returned.                                     *)
(***************************************************************************)
\* One key, INTEGER or VARCHAR, nullable or not, and no or one dependent.
SerdeConfigs ==
    {[keyTypes |-> <<key>>, nullableKeys |-> nullable,
      accumulators |-> <<>>, dependentTypes |-> dependents,
      hasNext |-> FALSE, hasProbedFlag |-> FALSE,
      hasNormalizedKeys |-> FALSE] :
        key \in {"INTEGER", "VARCHAR"}, nullable \in BOOLEAN,
        dependents \in {<<>>, <<"BIGINT">>, <<"VARCHAR">>, <<"ARRAY">>}}

SerdeInit ==
    /\ debugBuild = FALSE
    /\ \E c \in SerdeConfigs : InitContainer(c)

SerdeNewRow == DataNewRow(MaxSerdeRows)

SerdeStore ==
    /\ serialized = NoSerialized
    /\ DataStore(FALSE)

SerdeSetAllNull ==
    /\ serialized = NoSerialized
    /\ DataSetAllNull(handedOut)

SerdeExtract ==
    /\ serialized = NoSerialized
    /\ ExtractSerializedRows(MaxSerdeBatch)

SerdeLoad == StoreSerializedRow

SerdeNext ==
    \/ SerdeNewRow
    \/ SerdeStore
    \/ SerdeSetAllNull
    \/ SerdeExtract
    \/ SerdeLoad

SerdeSpec == SerdeInit /\ [][SerdeNext]_vars

(***************************************************************************)
(* Rows are built by stores and setAllNull, then serialized.               *)
(***************************************************************************)
\* One key, INTEGER or VARCHAR, nullable or not, and no or one VARCHAR
\* dependent.
ExtractConfigs ==
    {c \in SerdeConfigs : c.dependentTypes \in {<<>>, <<"VARCHAR">>}}

ExtractInit ==
    /\ debugBuild = FALSE
    /\ \E c \in ExtractConfigs : InitContainer(c)

ExtractNewRow ==
    /\ serialized = NoSerialized
    /\ DataNewRow(MaxExtractRows)

ExtractStore == SerdeStore

ExtractSetAllNull == SerdeSetAllNull

ExtractRows == SerdeExtract

ExtractNext ==
    \/ ExtractNewRow
    \/ ExtractStore
    \/ ExtractSetAllNull
    \/ ExtractRows

ExtractSpec == ExtractInit /\ [][ExtractNext]_vars

(***************************************************************************)
(* Containers of many schemas, each with a few rows.                       *)
(***************************************************************************)
\* An accumulator of 8 bytes with the given alignment.
Accumulator(align) ==
    [isFixedSize |-> TRUE, fixedSize |-> 8, usesExternalMemory |-> FALSE,
     alignment |-> align]

\* 1..MaxKeys keys of one kind, 0..MaxAccumulators accumulators of one
\* alignment, 0..MaxDependents dependents of one kind, with and without
\* nullable keys, the probed flag and the next pointer.
LayoutConfigs ==
    {[keyTypes |-> [i \in 1..numKeys |-> key],
      nullableKeys |-> nullable,
      accumulators |-> [i \in 1..numAccumulators |-> Accumulator(align)],
      dependentTypes |-> [i \in 1..numDependents |-> dependent],
      hasNext |-> next,
      hasProbedFlag |-> probed,
      hasNormalizedKeys |-> FALSE] :
        numKeys \in 1..MaxKeys, key \in {"TINYINT", "INTEGER", "VARCHAR"},
        nullable \in BOOLEAN,
        numAccumulators \in 0..MaxAccumulators, align \in {1, 16},
        numDependents \in 0..MaxDependents, dependent \in {"BIGINT", "VARCHAR"},
        next \in BOOLEAN, probed \in BOOLEAN}

LayoutInit ==
    /\ debugBuild = FALSE
    /\ \E c \in LayoutConfigs : InitContainer(c)

LayoutNewRow == CallNewRow(MaxLayoutRows, FALSE)

LayoutSetAllNull == SetAllNull

LayoutEraseRows == CallEraseRows(1)

LayoutNext ==
    \/ LayoutNewRow
    \/ LayoutSetAllNull
    \/ LayoutEraseRows

LayoutSpec == LayoutInit /\ [][LayoutNext]_vars

(***************************************************************************)
(* Rows whose columns are each stored once; setAllNull and eraseRows work  *)
(* on rows that have had all their columns stored.                         *)
(***************************************************************************)
\* One INTEGER key, nullable or not, and no or one dependent or one
\* accumulator.
StatsConfigs ==
    {[keyTypes |-> <<"INTEGER">>, nullableKeys |-> nullable,
      accumulators |-> <<>>, dependentTypes |-> dependents,
      hasNext |-> FALSE, hasProbedFlag |-> probed,
      hasNormalizedKeys |-> FALSE] :
        nullable \in BOOLEAN, probed \in BOOLEAN,
        dependents \in {<<>>, <<"BIGINT">>, <<"VARCHAR">>, <<"ARRAY">>}}
    \cup
    {[keyTypes |-> <<"INTEGER">>, nullableKeys |-> nullable,
      accumulators |-> <<FixedAccumulator>>, dependentTypes |-> <<>>,
      hasNext |-> FALSE, hasProbedFlag |-> FALSE,
      hasNormalizedKeys |-> FALSE] : nullable \in BOOLEAN}

StatsInit ==
    /\ debugBuild = FALSE
    /\ \E c \in StatsConfigs : InitContainer(c)

StoredRows == {addr \in handedOut : FullyStored(addr)}

StatsNewRow == DataNewRow(MaxStatsRows)

StatsStore == DataStore(FALSE)

StatsSetAllNull == DataSetAllNull(StoredRows)

StatsEraseRows == DataEraseRows(StoredRows, MaxStatsBatch)

StatsClear == DataClear

StatsNext ==
    \/ StatsNewRow
    \/ StatsStore
    \/ StatsSetAllNull
    \/ StatsEraseRows
    \/ StatsClear

StatsSpec == StatsInit /\ [][StatsNext]_vars

(***************************************************************************)
(* The same with fewer rows, for what newRow returns.                      *)
(***************************************************************************)
\* Those of StatsConfigs with no dependent or a VARCHAR one.
InitializeConfigs ==
    {c \in StatsConfigs : c.dependentTypes \in {<<>>, <<"VARCHAR">>}}

InitializeInit ==
    /\ debugBuild = FALSE
    /\ \E c \in InitializeConfigs : InitContainer(c)

InitializeNewRow == DataNewRow(MaxInitializeRows)

InitializeStore == StatsStore

InitializeSetAllNull == StatsSetAllNull

InitializeEraseRows == DataEraseRows(StoredRows, MaxStatsBatch)

InitializeNext ==
    \/ InitializeNewRow
    \/ InitializeStore
    \/ InitializeSetAllNull
    \/ InitializeEraseRows

InitializeSpec == InitializeInit /\ [][InitializeNext]_vars


(***************************************************************************)
(* Containers with normalized keys that are filled, partly erased and      *)
(* cleared.                                                                *)
(***************************************************************************)
\* One INTEGER key, nullable or not, with normalized keys, and no or one
\* VARCHAR dependent.
ClearConfigs ==
    {[keyTypes |-> <<"INTEGER">>, nullableKeys |-> nullable,
      accumulators |-> <<>>, dependentTypes |-> dependents,
      hasNext |-> FALSE, hasProbedFlag |-> FALSE,
      hasNormalizedKeys |-> TRUE] :
        nullable \in BOOLEAN, dependents \in {<<>>, <<"VARCHAR">>}}

ClearInit ==
    /\ debugBuild = FALSE
    /\ \E c \in ClearConfigs : InitContainer(c)

ClearNewRow == DataNewRow(MaxClearRows)

ClearStore == DataStore(TRUE)

ClearEraseRows == DataEraseRows(StoredRows, MaxClearBatch)

ClearDisableNormalizedKeys == DisableNormalizedKeys

ClearClear == DataClear

ClearNext ==
    \/ ClearNewRow
    \/ ClearStore
    \/ ClearEraseRows
    \/ ClearDisableNormalizedKeys
    \/ ClearClear

ClearSpec == ClearInit /\ [][ClearNext]_vars

(***************************************************************************)
(* Containers with accumulators: the rows newRow returns, the calls of the *)
(* accumulators' destroy hooks and the release of variable-width payload,  *)
(* over newRow, store, eraseRows and a last clear (a caller's, or that of  *)
(* ~RowContainer).                                                         *)
(***************************************************************************)
\* usesExternalMemory_ after the constructor's loop over the accumulators.
usesExternalMemory(c) ==
    \E i \in 1..NumAccumulators(c) : c.accumulators[i].usesExternalMemory

\* freeVariableWidthFields(rows) from column i on: one call of
\* freeVariableWidthFieldsAtColumn for every column of variable width.
RECURSIVE freeVariableWidthFieldsFrom(_, _, _)
freeVariableWidthFieldsFrom(c, batch, i) ==
    IF i > Len(types(c)) THEN <<>>
    ELSE (IF isFixedWidth(types(c)[i]) THEN <<>>
          ELSE <<[column |-> i, rows |-> batch]>>)
         \o freeVariableWidthFieldsFrom(c, batch, i + 1)

freeVariableWidthFields(c, batch) == freeVariableWidthFieldsFrom(c, batch, 1)

\* freeAggregates(rows): accumulator.destroy(rows) for every accumulator.
freeAggregates(c, batch) ==
    [i \in 1..NumAccumulators(c) |-> [accumulator |-> i, rows |-> batch]]

\* What freeRowsExtraMemory(rows) calls.  It lowers numRows_ as well: that
\* is part of eraseRows above, and clear sets numRows_ to 0 after it.
freeRowsExtraMemory(lt, c, batch) ==
    [lt EXCEPT !.released = @ \o freeVariableWidthFields(c, batch),
               !.destroyed = @ \o freeAggregates(c, batch)]

\* The rows listRows hands to clear: the rows of the arena whose free bit
\* is clear, by address.
RECURSIVE listRows(_, _)
listRows(c, rs) ==
    IF rs = <<>> THEN <<>>
    ELSE (IF isBitSet(Head(rs), freeFlagOffset(c)) THEN <<>>
          ELSE <<Head(rs).addr>>)
         \o listRows(c, Tail(rs))

\* The loop of clear(): freeRowsExtraMemory on batches of kClearBatch rows
\* until listRows returns 0.
RECURSIVE clearLoop(_, _, _)
clearLoop(lt, c, live) ==
    IF live = <<>> THEN lt
    ELSE LET n == Min(kClearBatch, Len(live))
         IN  clearLoop(freeRowsExtraMemory(lt, c, SubSeq(live, 1, n)), c,
                       SubSeq(live, n + 1, Len(live)))

\* What clear() calls before it empties the arena.
clearExtraMemory(lt, c, rs) ==
    IF usesExternalMemory(c) THEN clearLoop(lt, c, listRows(c, rs)) ELSE lt

LifetimeAccumulator(external) ==
    [isFixedSize |-> TRUE, fixedSize |-> 8, usesExternalMemory |-> external,
     alignment |-> 8]

\* A nullable VARCHAR key and accumulators of which each uses external
\* memory or not.
LifetimeConfigs ==
    {[keyTypes |-> <<"VARCHAR">>, nullableKeys |-> TRUE,
      accumulators |-> [i \in 1..NumLifetimeAccumulators |->
                           LifetimeAccumulator(external[i])],
      dependentTypes |-> <<>>, hasNext |-> FALSE, hasProbedFlag |-> FALSE,
      hasNormalizedKeys |-> FALSE] :
        external \in [1..NumLifetimeAccumulators -> BOOLEAN]}

LifetimeInit ==
    /\ debugBuild = FALSE
    /\ \E c \in LifetimeConfigs : InitContainer(c)

LifetimeFrame ==
    /\ prevErase' = PrevErase
    /\ UNCHANGED <<cfg, debugBuild, probers, mutable, parts, iter, scan,
                   serialized>>

\* clear() has been called: the caller makes no call after it.
Ended == lastOp.op = "clear"

LifetimeNewRow ==
    /\ ~aborted
    /\ ~Ended
    /\ StatsInRange
    /\ Len(lifetimes.born) < MaxLifetimes
    /\ firstFreeRow # NULL \/ Len(rows) < MaxLifetimeRows
    /\ newRow(TRUE)
    /\ IF lastOp'.err = ""
          THEN /\ \E fresh \in FreshCells(cfg) :
                     cells' = Put(cells, lastOp'.row, fresh)
               /\ lifetimes' = [lifetimes EXCEPT
                                   !.born = Append(@, lastOp'.row)]
          ELSE UNCHANGED <<cells, lifetimes>>
    /\ UNCHANGED stats
    /\ LifetimeFrame

LifetimeStore ==
    /\ ~Ended
    /\ DataStore(TRUE)

\* eraseRows of a batch of rows the caller once got from newRow, live or
\* not, repeated or not; the live ones have been stored.
LifetimeEraseRows ==
    /\ ~aborted
    /\ ~Ended
    /\ StatsInRange
    /\ \E batch \in Batches(MaxLifetimeBatch) :
          LET r == eraseLoop(cfg, rows, firstFreeRow, eraseOrder(batch), 1)
              erased == SubSeq(eraseOrder(batch), 1, r.done)
          IN  /\ \A i \in 1..Len(batch) :
                    batch[i] \in handedOut => FullyStored(batch[i])
              /\ eraseRows(batch)
              /\ stats' = eraseRowsStats(cfg, stats, erased)
              /\ cells' = Drop(cells, SeqToSet(erased))
              /\ lifetimes' = freeRowsExtraMemory(lifetimes, cfg, batch)
    /\ LifetimeFrame

\* clear(), called by the caller or, after a call that threw, by
\* ~RowContainer.
LifetimeClear ==
    /\ ~Ended
    /\ clear
    /\ lifetimes' = clearExtraMemory(lifetimes, cfg, rows)
    /\ LifetimeFrame

LifetimeNext ==
    \/ LifetimeNewRow
    \/ LifetimeStore
    \/ LifetimeEraseRows
    \/ LifetimeClear

LifetimeSpec == LifetimeInit /\ [][LifetimeNext]_vars

(***************************************************************************)
(* Containers of schemas with mixed keys and accumulators, whose rows are  *)
(* allocated and erased: the row layout as byte regions.                   *)
(***************************************************************************)
\* An accumulator of 12 bytes with the given alignment.
RegionAccumulator(align) ==
    [isFixedSize |-> TRUE, fixedSize |-> 12, usesExternalMemory |-> FALSE,
     alignment |-> align]

\* Up to MaxRegionKeys keys of 1 or 16 bytes, up to MaxRegionAccumulators
\* accumulators aligned to 1 or 16, up to MaxRegionDependents dependents,
\* with and without nullable keys, the probed flag and the next pointer.
RegionConfigs ==
    {[keyTypes |-> keys, nullableKeys |-> nullable,
      accumulators |-> [i \in 1..Len(aligns) |-> RegionAccumulator(aligns[i])],
      dependentTypes |-> [i \in 1..numDependents |-> "INTEGER"],
      hasNext |-> next, hasProbedFlag |-> probed,
      hasNormalizedKeys |-> FALSE] :
        keys \in UNION {[1..n -> {"TINYINT", "VARCHAR"}] :
                            n \in 0..MaxRegionKeys},
        nullable \in BOOLEAN,
        aligns \in UNION {[1..n -> {1, 16}] : n \in 0..MaxRegionAccumulators},
        numDependents \in 0..MaxRegionDependents,
        next \in BOOLEAN, probed \in BOOLEAN}

RegionInit ==
    /\ debugBuild = FALSE
    /\ \E c \in RegionConfigs : InitContainer(c)

RegionNewRow == CallNewRow(MaxRegionRows, FALSE)

\* eraseRows of one live row.
RegionEraseRows ==
    /\ ~aborted
    /\ \E batch \in LiveBatches(handedOut, 1) : eraseRows(batch)
    /\ Frame

RegionNext ==
    \/ RegionNewRow
    \/ RegionEraseRows

RegionSpec == RegionInit /\ [][RegionNext]_vars

(***************************************************************************)
(* A sort: rows are stored, then compared through a RowComparator, with    *)
(* one another and with tuples of decoded vectors.                         *)
(***************************************************************************)
\* A BOOLEAN key that is never null and a VARCHAR dependent that may be:
\* the columns of the row type, both of which a sort may be on.
CompareConfigs ==
    {[keyTypes |-> <<"BOOLEAN">>, nullableKeys |-> FALSE,
      accumulators |-> <<>>, dependentTypes |-> <<"VARCHAR">>,
      hasNext |-> FALSE, hasProbedFlag |-> FALSE,
      hasNormalizedKeys |-> FALSE]}

CompareInit ==
    /\ debugBuild = FALSE
    /\ \E c \in CompareConfigs : InitContainer(c)

\* The sequences of distinct channels of the row type.
SortingKeys(c) ==
    {k \in UNION {[1..n -> 1..Len(types(c))] : n \in 1..Len(types(c))} :
        \A i, j \in 1..Len(k) : i # j => k[i] # k[j]}

\* The comparators a caller may build over the container.
KeyInfos(c) ==
    UNION {{RowComparator(k, o) : o \in [1..Len(k) -> SortOrders]} :
              k \in SortingKeys(c)}

\* The tuples a caller's decoded vectors may hold at an index: per column
\* a value of its kind or a null.  Those of the first n columns.
RECURSIVE DecodedPrefixes(_, _)
DecodedPrefixes(c, n) ==
    IF n = 0 THEN {<<>>}
    ELSE {Append(d, source) : d \in DecodedPrefixes(c, n - 1),
                              source \in AnySource(types(c)[n])}

DecodedTuples(c) == DecodedPrefixes(c, Len(types(c)))

\* A comparison has been made: the caller makes one, and stores nothing
\* after it.
Comparing ==
    lastOp.op \in {"RowComparator::compare", "RowComparator::compare(decoded)"}

CompareNewRow ==
    /\ ~Comparing
    /\ DataNewRow(MaxCompareRows)

CompareStore ==
    /\ ~Comparing
    /\ DataStore(FALSE)

CompareOp(keyInfo, lhs, rhs, result, less) ==
    [op |-> "RowComparator::compare", err |-> "", row |-> NULL,
     rows |-> <<lhs, rhs>>, keyInfo |-> keyInfo, result |-> result,
     less |-> less]

\* compare(lhs, rhs) and operator()(lhs, rhs) on two rows of the container,
\* the same or not, through a comparator over it.
CompareRows ==
    /\ ~aborted
    /\ ~Comparing
    /\ handedOut = StoredRows
    /\ \E keyInfo \in KeyInfos(cfg), lhs \in StoredRows, rhs \in StoredRows :
          lastOp' = CompareOp(keyInfo, lhs, rhs,
                        RowComparatorCompare(cfg, keyInfo,
                            RowAt(rows, lhs), cells[lhs],
                            RowAt(rows, rhs), cells[rhs]),
                        RowComparatorLess(cfg, keyInfo,
                            RowAt(rows, lhs), cells[lhs],
                            RowAt(rows, rhs), cells[rhs]))
    /\ UNCHANGED <<containerVars, aborted, handedOut, eraseLog>>
    /\ UNCHANGED dataVars
    /\ DataFrame

CompareDecodedOp(keyInfo, decoded, other, result, less) ==
    [op |-> "RowComparator::compare(decoded)", err |-> "", row |-> other,
     rows |-> <<>>, keyInfo |-> keyInfo, decoded |-> decoded,
     result |-> result, less |-> less]

\* compare(decodedVectors, index, other) and operator()(decodedVectors,
\* index, other) on a tuple and a row of the container.
CompareDecoded ==
    /\ ~aborted
    /\ ~Comparing
    /\ handedOut = StoredRows
    /\ \E keyInfo \in KeyInfos(cfg), decoded \in DecodedTuples(cfg),
          other \in StoredRows :
          lastOp' = CompareDecodedOp(keyInfo, decoded, other,
                        RowComparatorCompareDecoded(cfg, keyInfo, decoded,
                            RowAt(rows, other), cells[other]),
                        RowComparatorLessDecoded(cfg, keyInfo, decoded,
                            RowAt(rows, other), cells[other]))
    /\ UNCHANGED <<containerVars, aborted, handedOut, eraseLog>>
    /\ UNCHANGED dataVars
    /\ DataFrame

CompareNext ==
    \/ CompareNewRow
    \/ CompareStore
    \/ CompareRows

CompareSpec == CompareInit /\ [][CompareNext]_vars

\* The same sort comparing tuples of decoded vectors with rows.
DecodedNext ==
    \/ CompareNewRow
    \/ CompareStore
    \/ CompareDecoded

DecodedSpec == CompareInit /\ [][DecodedNext]_vars

(***************************************************************************)
(* Rows are stored, then a column of a batch of them is hashed.            *)
(***************************************************************************)
\* One BOOLEAN key, nullable or not, and one VARCHAR dependent; one
\* BOOLEAN key that is never null and one dependent of the UNKNOWN type.
HashConfigs ==
    {[keyTypes |-> <<"BOOLEAN">>, nullableKeys |-> nullable,
      accumulators |-> <<>>, dependentTypes |-> <<"VARCHAR">>,
      hasNext |-> FALSE, hasProbedFlag |-> FALSE,
      hasNormalizedKeys |-> FALSE] : nullable \in BOOLEAN}
    \cup
    {[keyTypes |-> <<"BOOLEAN">>, nullableKeys |-> FALSE,
      accumulators |-> <<>>, dependentTypes |-> <<"UNKNOWN">>,
      hasNext |-> FALSE, hasProbedFlag |-> FALSE,
      hasNormalizedKeys |-> FALSE]}

HashInit ==
    /\ debugBuild = FALSE
    /\ \E c \in HashConfigs : InitContainer(c)

\* The hashes have been taken: the caller takes them once, and stores
\* nothing after it.
Hashing == lastOp.op = "hash"

HashNewRow ==
    /\ ~Hashing
    /\ DataNewRow(MaxHashRows)

HashStore ==
    /\ ~Hashing
    /\ DataStore(FALSE)

\* What the caller's result vector holds at index i before the call.
PreviousHash(i) == <<"previous", i>>

HashOp(column, batch, mix, result) ==
    [op |-> "hash", err |-> "", row |-> NULL, rows |-> batch,
     column |-> column, mix |-> mix, result |-> result]

\* hash(column, rows, mix, result) on a batch of stored rows.
Hash ==
    /\ ~aborted
    /\ ~Hashing
    /\ handedOut = StoredRows
    /\ \E column \in 1..Len(types(cfg)), mix \in BOOLEAN,
          batch \in LiveBatches(StoredRows, MaxHashBatch) :
          lastOp' = HashOp(column, batch, mix,
                        hashRows(cfg, rows, cells, column, batch, mix,
                                 [i \in 1..Len(batch) |-> PreviousHash(i)]))
    /\ UNCHANGED <<containerVars, aborted, handedOut, eraseLog>>
    /\ UNCHANGED dataVars
    /\ DataFrame

HashNext ==
    \/ HashNewRow
    \/ HashStore
    \/ Hash

HashSpec == HashInit /\ [][HashNext]_vars

(***************************************************************************)
(* The probe of a join: rows are allocated, some set to null, the last     *)
(* may be erased, and the container is sealed; then threads call           *)
(* setProbedFlag, each step of one a load or a store of a flag byte, in    *)
(* any order.                                                              *)
(***************************************************************************)
\* One nullable INTEGER key and the probed flag: the null bit of the key,
\* the probed bit and the free bit are in one byte.
ProbeConfig ==
    [keyTypes |-> <<"INTEGER">>, nullableKeys |-> TRUE,
     accumulators |-> <<>>, dependentTypes |-> <<>>,
     hasNext |-> FALSE, hasProbedFlag |-> TRUE, hasNormalizedKeys |-> FALSE]

ProbeInit ==
    /\ debugBuild = FALSE
    /\ InitContainer(ProbeConfig)

ProbeNewRow ==
    /\ mutable
    /\ CallNewRow(MaxProbeRows, FALSE)

\* setAllNull on the row newRow has just returned.
ProbeSetAllNull ==
    /\ mutable
    /\ ~aborted
    /\ lastOp.op = "newRow"
    /\ setAllNull(lastOp.row)
    /\ Frame

\* eraseRows of the last row, which newRow has just returned.
ProbeEraseRows ==
    /\ mutable
    /\ ~aborted
    /\ Len(rows) = MaxProbeRows
    /\ lastOp.op = "newRow"
    /\ eraseRows(<<lastOp.row>>)
    /\ Frame

ProbeSeal ==
    /\ mutable
    /\ CreateRowPartitions

\* A thread that has entered setProbedFlag: where it is in it, the row it
\* is at and the byte it has loaded.
Prober(pc, row, byte) == [pc |-> pc, row |-> row, byte |-> byte]

ProbeVars ==
    <<cfg, debugBuild, ranges, numRows, numFreeRows,
      numRowsWithNormalizedKey, normalizedKeySize, firstFreeRow, mutable,
      parts, iter, lastOp, prevErase, aborted, handedOut, eraseLog, scan,
      cells, stats, serialized, lifetimes>>

\* A thread calls setProbedFlag(rows, numRows) on the sealed container.
\* The entries of its array are drawn as its loop comes to them.
CallSetProbedFlag ==
    /\ ~mutable
    /\ ~aborted
    /\ Len(probers.calls) < MaxProbers
    /\ probers' = [probers EXCEPT
                      !.calls = Append(@, Prober("loop", NULL, {}))]
    /\ UNCHANGED <<rows, ProbeVars>>

\* The loop comes to a null entry: 'if (rows[i])' skips it.
ProbeNullEntry(t) ==
    /\ probers.calls[t].pc = "loop"
    /\ ~probers.nulls
    /\ probers' = [probers EXCEPT !.nulls = TRUE]
    /\ UNCHANGED <<rows, ProbeVars>>

\* The loop comes to a row and setBit loads its flag byte.
ProbeLoad(t) ==
    /\ probers.calls[t].pc = "loop"
    /\ \E addr \in AllocatedRows :
          probers' = [probers EXCEPT
              !.calls[t] =
                  Prober("store", addr,
                         loadByte(RowAt(rows, addr), probedFlagOffset(cfg))),
              !.rows = @ \cup {addr}]
    /\ UNCHANGED <<rows, ProbeVars>>

\* setBit stores the byte, of the value it has loaded.
ProbeStore(t) ==
    /\ probers.calls[t].pc = "store"
    /\ LET i == RowIndex(rows, probers.calls[t].row)
           idx == probedFlagOffset(cfg)
       IN  rows' = [rows EXCEPT ![i].bits =
                       storeByte(rows[i], idx,
                                 setBit(probers.calls[t].byte, idx))]
    /\ probers' = [probers EXCEPT !.calls[t].pc = "loop"]
    /\ UNCHANGED ProbeVars

\* The loop has come to the end of the array: the call returns.
ProbeReturn(t) ==
    /\ probers.calls[t].pc = "loop"
    /\ probers' = [probers EXCEPT !.calls[t].pc = "returned"]
    /\ UNCHANGED <<rows, ProbeVars>>

SetProbedFlag ==
    \E t \in 1..Len(probers.calls) :
        \/ ProbeNullEntry(t)
        \/ ProbeLoad(t)
        \/ ProbeStore(t)
        \/ ProbeReturn(t)

ProbeNext ==
    \/ ProbeNewRow
    \/ ProbeSetAllNull
    \/ ProbeEraseRows
    \/ ProbeSeal
    \/ CallSetProbedFlag
    \/ SetProbedFlag

ProbeSpec == ProbeInit /\ [][ProbeNext]_vars

(***************************************************************************)
(* The constructor called with accumulators of any alignment, and          *)
(* combineAlignments called with any two alignments.                       *)
(***************************************************************************)
\* The int32_t values an Accumulator is made with: the small ones, a
\* negative one and the least.
Alignments == (0..MaxAlignmentValue) \cup {-1, kInt32Min}

\* One INTEGER key and up to MaxAlignedAccumulators accumulators.
AlignmentConfigs ==
    {[keyTypes |-> <<"INTEGER">>, nullableKeys |-> FALSE,
      accumulators |-> [i \in 1..n |-> Accumulator(aligns[i])],
      dependentTypes |-> <<>>,
      hasNext |-> FALSE, hasProbedFlag |-> FALSE,
      hasNormalizedKeys |-> FALSE] :
        n \in 0..MaxAlignedAccumulators,
        aligns \in [1..MaxAlignedAccumulators -> Alignments]}

\* The arguments are there and the constructor has not run.
AlignmentInit ==
    /\ debugBuild = FALSE
    /\ cfg \in AlignmentConfigs
    /\ ranges = <<>>
    /\ rows = <<>>
    /\ numRows = 0
    /\ numFreeRows = 0
    /\ numRowsWithNormalizedKey = 0
    /\ normalizedKeySize = 0
    /\ firstFreeRow = NULL
    /\ mutable = TRUE
    /\ parts = RowPartitions(0)
    /\ iter = ZeroIterator
    /\ lastOp = NoOp
    /\ prevErase = NoOp
    /\ aborted = FALSE
    /\ handedOut = {}
    /\ eraseLog = <<>>
    /\ scan = NoScan
    /\ cells = <<>>
    /\ stats = <<>>
    /\ serialized = NoSerialized
    /\ probers = NoProbers
    /\ lifetimes = NoLifetimes

\* RowContainer::RowContainer: the loop over the accumulators throws, or
\* the container is there, empty.
Construct ==
    /\ lastOp = NoOp
    /\ LET err == alignmentError(cfg.accumulators, kInitialAlignment)
       IN  /\ lastOp' = Op("RowContainer", err, NULL, <<>>)
           /\ aborted' = (err # "")
           /\ stats' = IF err = "" THEN NoStats(cfg) ELSE stats
    /\ UNCHANGED <<cfg, debugBuild, probers, lifetimes,
                   containerVars, mutable, parts,
                   iter,
                   prevErase, handedOut, eraseLog, scan, cells, serialized>>

CombineOp(a, b, combined) ==
    [op |-> "combineAlignments", err |-> combined.err, row |-> NULL,
     rows |-> <<>>, a |-> a, b |-> b, value |-> combined.value]

\* The static combineAlignments called on its own.
CombineAlignments ==
    /\ lastOp = NoOp
    /\ \E a \in Alignments, b \in Alignments :
          lastOp' = CombineOp(a, b, combineAlignments(a, b))
    /\ UNCHANGED <<cfg, debugBuild, probers, lifetimes,
                   containerVars, mutable, parts,
                   iter,
                   prevErase, aborted, handedOut, eraseLog, scan, cells,
                   stats, serialized>>

AlignmentNext ==
    \/ Construct
    \/ CombineAlignments

AlignmentSpec == AlignmentInit /\ [][AlignmentNext]_vars

(***************************************************************************)
(* Rows of a size that gives each its own arena range, the pool placing    *)
(* the ranges in any order; the caller then asks which of its pointers     *)
(* are in the arena.                                                       *)
(***************************************************************************)
\* Three BIGINT keys: a row of 32 bytes.
FindConfig ==
    [keyTypes |-> <<"BIGINT", "BIGINT", "BIGINT">>, nullableKeys |-> FALSE,
     accumulators |-> <<>>, dependentTypes |-> <<>>,
     hasNext |-> FALSE, hasProbedFlag |-> FALSE, hasNormalizedKeys |-> FALSE]

FindInit ==
    /\ debugBuild = FALSE
    /\ InitContainer(FindConfig)

\* Where the pool may place a range.
RangeSlots == {64 * k : k \in 1..MaxFindSlots}

FreeSlots == RangeSlots \ {ranges[i].start : i \in 1..Len(ranges)}

\* findRows has been called: the caller calls it once, and allocates
\* nothing after it.
Finding == lastOp.op = "findRows"

FindNewRow ==
    /\ ~aborted
    /\ ~Finding
    /\ Len(rows) < MaxFindRows
    /\ \E start \in FreeSlots : newRowAt(TRUE, start)
    /\ Frame

\* The pointers a caller may ask about: below, at the start of, inside,
\* at the end of a row of and at the end of a range at each place.
CandidateAddresses ==
    {start + d : start \in RangeSlots,
                 d \in {-8, 0, 8, fixedRowSize(FindConfig), RangeBytes}}

Candidates ==
    UNION {[1..n -> CandidateAddresses] : n \in 0..MaxCandidates}

FindOp(err, candidates, result) ==
    [op |-> "findRows", err |-> err, row |-> NULL, rows |-> candidates,
     result |-> result, numRows |-> Len(result)]

FindRows ==
    /\ ~aborted
    /\ ~Finding
    /\ \E candidates \in Candidates :
          \E outcome \in findRows(ranges, candidates) :
             /\ lastOp' = FindOp(outcome.err, candidates, outcome.result)
             /\ aborted' = (outcome.err # "")
    /\ UNCHANGED <<containerVars, handedOut, eraseLog>>
    /\ Frame

FindNext ==
    \/ FindNewRow
    \/ FindRows

FindSpec == FindInit /\ [][FindNext]_vars

(***************************************************************************)
(* Rows stored with non-null values, erased and allocated again.           *)
(***************************************************************************)
\* One INTEGER key, nullable or not, and no or one VARCHAR dependent.
ReuseConfigs ==
    {c \in StatsConfigs :
        /\ ~c.hasProbedFlag
        /\ c.accumulators = <<>>
        /\ c.dependentTypes \in {<<>>, <<"VARCHAR">>}}

ReuseInit ==
    /\ debugBuild = FALSE
    /\ \E c \in ReuseConfigs : InitContainer(c)

ReuseNewRow == DataNewRow(MaxReuseRows)

ReuseStore == DataStore(TRUE)

ReuseEraseRows == DataEraseRows(StoredRows, MaxReuseBatch)

ReuseNext ==
    \/ ReuseNewRow
    \/ ReuseStore
    \/ ReuseEraseRows

ReuseSpec == ReuseInit /\ [][ReuseNext]_vars






(***************************************************************************)
(* The free list as the code walks it.                                     *)
(***************************************************************************)
\* The rows reached from 'head' through nextFree, at most 'fuel' of them.
RECURSIVE walkFreeList(_, _, _)
walkFreeList(rs, head, fuel) ==
    IF head = NULL \/ fuel = 0 THEN <<>>
    ELSE <<head>> \o walkFreeList(rs, nextFree(RowAt(rs, head)), fuel - 1)

\* The free list, from firstFreeRow_ on.
FreeList == walkFreeList(rows, firstFreeRow, Len(rows) + 1)

hasFreeBit(addr) == isBitSet(RowAt(rows, addr), freeFlagOffset(cfg))

Reverse(s) == [i \in 1..Len(s) |-> s[Len(s) + 1 - i]]

(***************************************************************************)
(* C1.  In every state reached by newRow, store, setAllNull, eraseRows and *)
(* clear, in every configuration, every row on the free list has its free  *)
(* bit set and no live row (returned by newRow and not erased since) has    *)
(* its free bit set.                                                        *)
(***************************************************************************)
C1_FreeBitIffFreed ==
    /\ \A addr \in SeqToSet(FreeList) : hasFreeBit(addr)
    /\ \A addr \in handedOut : ~hasFreeBit(addr)

\* The configurations in which a key's entry of nullOffsets_ is the free
\* bit: keys that are not nullable and no flag before the free flag.
KeyNullOffsetIsFreeFlag(c) ==
    \E i \in 1..Len(nullOffsets(c)) : nullOffsets(c)[i] = freeFlagOffset(c)

\* C1 outside those configurations (not a claim: the extent of the
\* divergence).
C1_ExceptCollidingLayouts ==
    ~KeyNullOffsetIsFreeFlag(cfg) => C1_FreeBitIffFreed

(***************************************************************************)
(* C2.  As long as no call has failed, numRows is the number of rows       *)
(* handed out by newRow and not erased since the last clear, and           *)
(* numFreeRows is the length of the free list from firstFreeRow; a         *)
(* successful eraseRows of n rows raises numFreeRows by n and lowers       *)
(* numRows by n, and a newRow served from the free list lowers numFreeRows *)
(* by 1.                                                                   *)
(***************************************************************************)
NoCallFailed == ~aborted

CountersAgree ==
    NoCallFailed =>
        /\ numRows = Cardinality(handedOut)
        /\ numFreeRows = Len(FreeList)

CounterSteps ==
    /\ (lastOp'.op = "eraseRows" /\ lastOp'.err = "") =>
            /\ numFreeRows' = numFreeRows + Len(lastOp'.rows)
            /\ numRows' = numRows - Len(lastOp'.rows)
    /\ (lastOp'.op = "newRow" /\ lastOp'.err = "" /\ firstFreeRow # NULL) =>
            numFreeRows' = numFreeRows - 1

C2_Counters == []CountersAgree /\ [][CounterSteps]_vars

\* A newRow has just been served from a free list of two rows.
C2_Witness ==
    /\ NoCallFailed
    /\ lastOp.op = "newRow"
    /\ lastOp.err = ""
    /\ numFreeRows = 1
    /\ numRows >= 2

(***************************************************************************)
(* C3.  eraseRows fails with 'Double free of row' whenever the batch holds *)
(* a row whose free bit is already set: a row erased by an earlier call    *)
(* and not re-allocated since, or a row that occurs twice in the batch.    *)
(***************************************************************************)
HasDuplicates(batch) ==
    \E i, j \in 1..Len(batch) : i # j /\ batch[i] = batch[j]

DoubleFreeStep ==
    lastOp'.op = "eraseRows" =>
        LET batch == lastOp'.rows
        IN  (\/ \E i \in 1..Len(batch) : hasFreeBit(batch[i])
             \/ \E i \in 1..Len(batch) : batch[i] \in SeqToSet(eraseLog)
             \/ HasDuplicates(batch))
            => lastOp'.err = kDoubleFree

C3_DoubleFree == [][DoubleFreeStep]_vars

\* A batch of two different rows, the second erased before, has failed
\* after the first was pushed.
C3_Witness ==
    /\ lastOp.op = "eraseRows"
    /\ lastOp.err = kDoubleFree
    /\ ~HasDuplicates(lastOp.rows)
    /\ Len(lastOp.rows) = 2
    /\ firstFreeRow = lastOp.rows[1]

(***************************************************************************)
(* C4.  After eraseRows(S) for a batch S of one or more live rows, the     *)
(* next newRow() returns exactly the first row in S.                       *)
(***************************************************************************)
NewRowFollowsErase ==
    /\ prevErase.op = "eraseRows"
    /\ prevErase.err = ""
    /\ lastOp.op = "newRow"
    /\ lastOp.err = ""

FreeListIsStack == FreeList = Reverse(eraseLog)

StackSteps ==
    (lastOp'.op = "newRow" /\ lastOp'.err = "") =>
        IF eraseLog # <<>>
            THEN /\ lastOp'.row = eraseLog[Len(eraseLog)]
                 /\ numFreeRows' = Len(eraseLog) - 1
                 /\ rows'[RowIndex(rows', lastOp'.row)].bits = {}
                 /\ Len(rows') = Len(rows)
            ELSE /\ lastOp'.row \notin AllocatedRows
                 /\ Len(rows') = Len(rows) + 1

\* After eraseRows of rows 2 and 3 of 4 live rows, numFreeRows is 2.
ScenarioErase ==
    (/\ Len(rows) = 4
     /\ lastOp.op = "eraseRows"
     /\ lastOp.err = ""
     /\ lastOp.rows = <<rows[2].addr, rows[3].addr>>
     /\ handedOut = {rows[1].addr, rows[4].addr})
    => numFreeRows = 2 /\ firstFreeRow = rows[3].addr

C5_FreeListIsStack ==
    /\ [](NoCallFailed => FreeListIsStack /\ ScenarioErase)
    /\ [][NoCallFailed => StackSteps]_vars

\* The scenario: 4 rows, rows 2 and 3 erased, and newRow has returned row 3.
C5_Witness ==
    /\ NoCallFailed
    /\ Len(rows) = 4
    /\ lastOp = Op("newRow", "", rows[3].addr, <<>>)
    /\ eraseLog = <<rows[2].addr>>
    /\ handedOut = {rows[1].addr, rows[3].addr, rows[4].addr}
    /\ numFreeRows = 1

(***************************************************************************)
(* C6.  newRow either returns an initialized row or, when it fails (the    *)
(* arena allocation fails, or the head of the free list does not carry the *)
(* free bit), leaves numRows, numFreeRows, numRowsWithNormalizedKey and    *)
(* firstFreeRow as they were before the call.                              *)
(***************************************************************************)
C6_FailedNewRowChangesNothing ==
    [][(lastOp'.op = "newRow" /\ lastOp'.err # "") =>
          UNCHANGED <<numRows, numFreeRows, numRowsWithNormalizedKey,
                      firstFreeRow>>]_vars

(***************************************************************************)
(* C7.  Once createRowPartitions has been called, every later newRow and   *)
(* every later eraseRows is rejected with an error and leaves numRows,     *)
(* numFreeRows and the free list unchanged.                                *)
(***************************************************************************)
C7_SealedRejectsMutation ==
    [][(~mutable /\ lastOp'.op \in {"newRow", "eraseRows"}) =>
          /\ lastOp'.err # ""
          /\ UNCHANGED <<numRows, numFreeRows, firstFreeRow, rows>>]_vars

(***************************************************************************)
(* C8.  createRowPartitions succeeds at most once: the first call flips    *)
(* mutable from true to false and returns a RowPartitions whose capacity   *)
(* is numRows at that moment; every later call fails with an error; and no *)
(* operation, clear included, sets mutable back to true.                   *)
(***************************************************************************)
SealStep ==
    /\ ~mutable => ~mutable'
    /\ lastOp'.op = "createRowPartitions" =>
          IF mutable
              THEN /\ lastOp'.err = ""
                   /\ ~mutable'
                   /\ parts' = [capacity |-> numRows, data |-> <<>>]
              ELSE /\ lastOp'.err = kPartitionsOnce
                   /\ UNCHANGED <<mutable, parts, containerVars>>

C8_SealedOnce == [][SealStep]_vars

\* A second createRowPartitions has failed on a sealed container that
\* holds rows.
C8_Witness ==
    /\ lastOp.op = "createRowPartitions"
    /\ lastOp.err = kPartitionsOnce
    /\ ~mutable
    /\ parts.capacity > 0


(***************************************************************************)
(* Listing the rows of a partition.                                        *)
(***************************************************************************)
\* The step is a call of listPartitionRows.
IsListCall == lastOp'.op = "listPartitionRows"

\* The call threw, wrote no result and left the iterator alone.
ListCallRejected ==
    /\ lastOp'.err \in {kListMutable, kListSize}
    /\ lastOp'.rows = <<>>
    /\ iter' = iter
    /\ scan'.listed = scan.listed

\* The call returned 0.
ListCallReturnedZero ==
    /\ lastOp'.err = ""
    /\ lastOp'.rows = <<>>
    /\ iter' = iter

(* C9, as stated.  A call of listPartitionRows on a mutable container or   *)
(* with a partition table whose size is not numRows fails, writes no       *)
(* result and leaves the iterator unchanged; a call on a sealed container  *)
(* with numRows = 0 returns 0.                                             *)
C9_ListPreconditions ==
    [][IsListCall =>
          /\ (mutable \/ Len(parts.data) # numRows) => ListCallRejected
          /\ (~mutable /\ numRows = 0) => ListCallReturnedZero]_vars

(* C9, amended.  As above, but the call returns 0 on a sealed container    *)
(* with numRows = 0 whose partition table is empty as well; with a         *)
(* non-empty table the size check fails first.                             *)
C9_ListPreconditionsEmptyTable ==
    [][IsListCall =>
          /\ (mutable \/ Len(parts.data) # numRows) => ListCallRejected
          /\ (~mutable /\ numRows = 0 /\ Len(parts.data) = 0)
                => ListCallReturnedZero]_vars

\* A call was rejected for the size of the table, on a sealed container.
C9_Witness ==
    /\ lastOp.op = "listPartitionRows"
    /\ lastOp.err = kListSize
    /\ ~mutable
    /\ numRows > 0

\* The live rows in the order of their slots in the arena: row i of the
\* container is LiveRows[i + 1].
LiveRows ==
    LET live == SelectSeq(rows, LAMBDA r : ~isBitSet(r, freeFlagOffset(cfg)))
    IN  [i \in 1..Len(live) |-> live[i].addr]

\* The rows of partition p in ascending row number.
RECURSIVE PartitionRowsFrom(_, _)
PartitionRowsFrom(p, i) ==
    IF i > Len(parts.data) \/ i > Len(LiveRows) THEN <<>>
    ELSE (IF parts.data[i] = p THEN <<LiveRows[i]>> ELSE <<>>) \o
         PartitionRowsFrom(p, i + 1)

PartitionRows(p) == PartitionRowsFrom(p, 1)

IsPrefix(s, t) == Len(s) <= Len(t) /\ SubSeq(t, 1, Len(s)) = s

\* The container is sealed, the table is full and the scan has begun.
Listing ==
    /\ ~mutable
    /\ Len(parts.data) = numRows
    /\ lastOp.op = "listPartitionRows"

\* What the calls of the scan have returned so far is right.
ListedRight ==
    /\ lastOp.err = ""
    /\ Len(lastOp.rows) <= lastOp.maxRows
    /\ IsPrefix(scan.listed, PartitionRows(scan.partition))
    /\ lastOp.rows = <<>> => scan.listed = PartitionRows(scan.partition)

\* No slot of the arena is on the free list.
NoFreedSlot == numFreeRows = 0

\* Every row has the normalized-key prefix or none has.
UniformStride == numRowsWithNormalizedKey \in {0, Len(rows)}

(* C10.  On a sealed container with a full partition table the calls of    *)
(* listPartitionRows on one iterator return, concatenated, the rows whose  *)
(* partition number is p in ascending row number, none twice and none      *)
(* left out, each call at most maxRows of them.                            *)
C10_ListsPartition == Listing => ListedRight

\* The same for containers without a freed slot whose rows all have the
\* same stride.
C10_WithoutFreedSlotsUniformStride ==
    (Listing /\ NoFreedSlot /\ UniformStride) => ListedRight

\* The same for containers without a freed slot.
C10_WithoutFreedSlots == (Listing /\ NoFreedSlot) => ListedRight

\* The same for containers whose rows all have the same stride.
C10_UniformStride == (Listing /\ UniformStride) => ListedRight


(***************************************************************************)
(* skip from a zero-initialized iterator.                                  *)
(***************************************************************************)
\* The last call was skip(iter, k) on a zero-initialized iterator, with a
\* k-th row to stop at (the rows are counted from 0).
FirstSkip ==
    /\ lastOp.op = "skip"
    /\ Len(scan.listed) = 1
    /\ lastOp.n < numRows

\* The cursor is at the k-th live row.  LiveRows has the live rows in the
\* order of their slots, which is the order of insertion of the rows that
\* were bump-allocated.
AtKthLiveRow ==
    /\ lastOp.err = ""
    /\ lastOp.row = LiveRows[lastOp.n + 1]

(* C11.  After skip(iter, k) on a zero-initialized iterator, with          *)
(* k < numRows, iter.currentRow() is the k-th live row in insertion        *)
(* order, freed slots not counted, whatever newRow and eraseRows calls     *)
(* came before and however many ranges the arena has.                      *)
C11_SkipReachesKthLiveRow == FirstSkip => AtKthLiveRow

\* The same for containers without a freed slot whose rows all have the
\* same stride.
C11_WithoutFreedSlotsUniformStride ==
    (FirstSkip /\ NoFreedSlot /\ UniformStride) => AtKthLiveRow

\* The same for containers without a freed slot.
C11_WithoutFreedSlots == (FirstSkip /\ NoFreedSlot) => AtKthLiveRow

\* The same for containers whose rows all have the same stride.
C11_UniformStride == (FirstSkip /\ UniformStride) => AtKthLiveRow

(***************************************************************************)
(* C12: a row R extracted with extractSerializedRows and loaded with       *)
(* storeSerializedRow into a row R' newRow has just returned makes R'      *)
(* observably equal to R: the same null flag and the same value in every   *)
(* column, the same hash per column and compare(R, R') = 0 per column.     *)
(***************************************************************************)
ObservablyEqual(c, left, leftCell, right, rightCell) ==
    \A j \in 1..Len(types(c)) :
        /\ isNullAt(c, left, j) = isNullAt(c, right, j)
        /\ ~isNullAt(c, left, j) =>
              leftCell.values[j] = rightCell.values[j]
        /\ hash(c, left, leftCell, j) = hash(c, right, rightCell, j)
        /\ compare(c, left, leftCell, right, rightCell, j) = 0

\* The last call was storeSerializedRow.
Loaded == lastOp.op = "storeSerializedRow"

\* The loaded row is observably equal to the row the blob was taken from.
RoundTrips ==
    LET source == serialized.rows[lastOp.index]
    IN  ObservablyEqual(cfg, RowAt(rows, source), cells[source],
                        RowAt(rows, lastOp.row), cells[lastOp.row])

C12_RoundTrip == Loaded => RoundTrips

\* rowColumns_[0] has a null bit: the flag bytes are those of the row.
FirstColumnNullable == columnNullOffset(cfg, 1) # kNotNullOffset

C12_RoundTripFirstColumnNullable ==
    (Loaded /\ FirstColumnNullable) => RoundTrips

\* A null column has been serialized and loaded where the first column is
\* nullable.
C12_NullColumnLoaded ==
    /\ Loaded
    /\ FirstColumnNullable
    /\ \E j \in 1..Len(types(cfg)) :
          isNullAt(cfg, RowAt(rows, lastOp.row), j)

(***************************************************************************)
(* C13: each serialized row is flagBytes + the fixed widths + 4 and the    *)
(* stored length for each variable-width column, the length being 0 for a  *)
(* null column, and extractSerializedRows writes as many bytes as it has   *)
(* pre-summed: the totalWritten == totalBytes check never fails.           *)
(***************************************************************************)
RECURSIVE ExpectedVariableBytes(_, _, _)
\* 4 + the stored length, 0 when null, over the variable-width columns j
\* and up.
ExpectedVariableBytes(row, cell, j) ==
    IF j > Len(types(cfg)) THEN 0
    ELSE (IF isFixedWidth(types(cfg)[j]) THEN 0
          ELSE IF isNullAt(cfg, row, j) THEN 4
          ELSE 4 + Len(cell.values[j]))
         + ExpectedVariableBytes(row, cell, j + 1)

ExpectedSize(addr) ==
    flagBytes(cfg) + SumSizes(SelectSeq(types(cfg), isFixedWidth))
    + ExpectedVariableBytes(RowAt(rows, addr), cells[addr], 1)

Extracted == lastOp.op = "extractSerializedRows"

C13_SerializedLength ==
    Extracted =>
        /\ lastOp.err = ""
        /\ lastOp.totalWritten = lastOp.totalBytes
        /\ \A i \in 1..Len(serialized.blobs) :
              serializedSize(cfg, serialized.blobs[i])
                  = ExpectedSize(serialized.rows[i])

\* A row with a null variable-width column that has a payload of one byte
\* or more has been serialized.
C13_Witness ==
    /\ Extracted
    /\ \E i \in 1..Len(serialized.rows), j \in 1..Len(types(cfg)) :
          LET addr == serialized.rows[i]
          IN  /\ ~isFixedWidth(types(cfg)[j])
              /\ isNullAt(cfg, RowAt(rows, addr), j)
              /\ Len(cells[addr].values[j]) > 0

(***************************************************************************)
(* C14: for every schema fixedRowSize is a multiple of the container's     *)
(* alignment, which is the maximum of the pointer size and all accumulator *)
(* alignments; keys [INTEGER, INTEGER] without accumulators give a         *)
(* fixedRowSize that is a multiple of 8.                                   *)
(***************************************************************************)
RECURSIVE MaxAlignment(_)
MaxAlignment(accs) ==
    IF accs = <<>> THEN kPointerSize
    ELSE Max(Head(accs).alignment, MaxAlignment(Tail(accs)))

AccumulatorNullBit(c, k) == nullOffsets(c)[NumKeys(c) + k]

\* The initialized bit of accumulator k.
AccumulatorInitializedBit(c, k) == AccumulatorNullBit(c, k) + 1

C15_AccumulatorFlagsShareByte ==
    \A k \in 1..NumAccumulators(cfg) :
        AccumulatorNullBit(cfg, k) \div 8
            = AccumulatorInitializedBit(cfg, k) \div 8

\* A row of a container with key null bits before the accumulator flags
\* and accumulator flags in more than one byte.
C15_Witness ==
    /\ cfg.nullableKeys
    /\ NumAccumulators(cfg) >= 4
    /\ AccumulatorNullBit(cfg, 1) \div 8
           # AccumulatorNullBit(cfg, NumAccumulators(cfg)) \div 8 \/
       KeyFlagEnd(cfg) % 8 # 0
    /\ Len(rows) > 0

(***************************************************************************)
(* C16: for every schema freeFlagOffset differs from the null-bit position *)
(* of every column (keys, accumulators, dependents), from every            *)
(* accumulator's initialized bit and from probedFlagOffset, so that no     *)
(* operation that sets or clears a column's null bit changes the free bit. *)
(***************************************************************************)
\* The null bits the operations write: the entries of nullOffsets_.
ColumnNullBits(c) == allNullBits(c)

InitializedBits(c) ==
    {AccumulatorInitializedBit(c, k) : k \in 1..NumAccumulators(c)}

FreeFlagDistinct(c) ==
    /\ freeFlagOffset(c) \notin ColumnNullBits(c)
    /\ freeFlagOffset(c) \notin InitializedBits(c)
    /\ c.hasProbedFlag => freeFlagOffset(c) # probedFlagOffset(c)

C16_FreeFlagDistinct == FreeFlagDistinct(cfg)

\* A call of setAllNull or store that returns leaves the free bit of its
\* row as it was.
FreeBitKept(ops) ==
    (lastOp'.op \in ops /\ lastOp'.err = "") =>
        (isBitSet(RowAt(rows', lastOp'.row), freeFlagOffset(cfg))
            = isBitSet(RowAt(rows, lastOp'.row), freeFlagOffset(cfg)))

C16_NullBitWritesKeepFreeBit == [][FreeBitKept({"setAllNull", "store"})]_vars

\* The same with the null bits of rowColumns_, where the keys of a
\* container without nullable keys have none, and for store, which works
\* on them.
C16_FreeFlagDistinctInRowColumns ==
    /\ \A i \in 1..Len(nullOffsets(cfg)) :
          freeFlagOffset(cfg) # columnNullOffset(cfg, i)
    /\ freeFlagOffset(cfg) \notin InitializedBits(cfg)
    /\ cfg.hasProbedFlag => freeFlagOffset(cfg) # probedFlagOffset(cfg)

C16_StoreKeepsFreeBit == [][FreeBitKept({"store"})]_vars

(***************************************************************************)
(* C17: a row returned by newRow, bump-allocated or popped from the free   *)
(* list, has every nullable column reading as null, every accumulator      *)
(* uninitialized, its variable-row-size counter 0, its probed bit clear    *)
(* and its free bit clear.                                                 *)
(***************************************************************************)
\* newRow has just returned a row.
NewRowReturned == lastOp.op = "newRow" /\ lastOp.err = ""

NewRowState(columnsNull) ==
    LET row == RowAt(rows, lastOp.row)
    IN  /\ \A j \in 1..Len(types(cfg)) :
              columnNullOffset(cfg, j) # kNotNullOffset =>
                  (isNullAt(cfg, row, j) = columnsNull)
        /\ \A k \in 1..NumAccumulators(cfg) :
              /\ isBitSet(row, AccumulatorNullBit(cfg, k)) = columnsNull
              /\ ~isBitSet(row, AccumulatorInitializedBit(cfg, k))
        /\ cells[lastOp.row].rowSize = 0
        /\ cfg.hasProbedFlag => ~isBitSet(row, probedFlagOffset(cfg))
        /\ ~isBitSet(row, freeFlagOffset(cfg))

StoredCells(j, null) ==
    {addr \in handedOut :
        /\ cells[addr].stores[j] > 0
        /\ isNullAt(cfg, RowAt(rows, addr), j) = null}

\* The byte size of the cell of column j of a row.
CellBytes(addr, j) ==
    IF isFixedWidth(types(cfg)[j]) THEN typeKindSize(types(cfg)[j])
    ELSE Len(cells[addr].values[j])

RECURSIVE SumCellBytes(_, _)
SumCellBytes(addrs, j) ==
    IF addrs = {} THEN 0
    ELSE LET addr == CHOOSE a \in addrs : TRUE
         IN  CellBytes(addr, j) + SumCellBytes(addrs \ {addr}, j)

StatsAgree ==
    \A j \in 1..Len(types(cfg)) :
        /\ stats[j].nullCount = Cardinality(StoredCells(j, TRUE))
        /\ stats[j].nonNullCount = Cardinality(StoredCells(j, FALSE))
        /\ stats[j].sumBytes = SumCellBytes(StoredCells(j, FALSE), j)
        /\ stats[j].nullCount >= 0
        /\ stats[j].nonNullCount >= 0
        /\ stats[j].sumBytes >= 0

C19_StatsAgree == ~aborted => StatsAgree

\* The same for the containers whose keys are nullable.
C19_StatsAgreeNullableKeys == (~aborted /\ cfg.nullableKeys) => StatsAgree

(***************************************************************************)
(* C20: with 4 rows allocated and stored with non-null values in every     *)
(* column, rows 2 and 3 erased and then one newRow, the column statistics  *)
(* report 3 live non-null cells for every column right after that newRow.  *)
(***************************************************************************)
\* Right after the newRow of the scenario.
ReuseScenario ==
    /\ NewRowReturned
    /\ Len(rows) = 4
    /\ prevErase.op = "eraseRows" /\ prevErase.err = ""
    /\ SeqToSet(prevErase.rows) = {rows[2].addr, rows[3].addr}
    /\ Len(prevErase.rows) = 2
    /\ handedOut = {rows[1].addr, rows[4].addr, lastOp.row}
    /\ FullyStored(rows[1].addr) /\ FullyStored(rows[4].addr)

NonNullCells(n) ==
    \A j \in 1..Len(types(cfg)) :
        stats[j].nonNullCount = n /\ stats[j].nullCount = 0

C20_ThreeCellsAfterReuse == ReuseScenario => NonNullCells(3)

\* The statistics report the 2 cells per column of rows 1 and 4: nothing
\* has been stored in the row that newRow has returned.
C20_TwoCellsAfterReuse == ReuseScenario => NonNullCells(2)

C20_Witness == ReuseScenario /\ numFreeRows = 1

(***************************************************************************)
(* C18: for a nullable column of any kind, fixed-width, string or complex, *)
(* store with a null source sets the column's null bit and leaves the      *)
(* payload as it is, and store with a non-null source clears the null bit  *)
(* and writes the payload: after a non-null store the column reads as not  *)
(* null whatever its state before.                                         *)
(***************************************************************************)
\* store has just returned, having worked on a column with a null bit.
StoredNullable(kinds) ==
    /\ lastOp'.op = "store" /\ lastOp'.err = ""
    /\ storeNullOffset(cfg, lastOp'.columnIndex) # kNotNullOffset
    /\ types(cfg)[lastOp'.columnIndex] \in kinds

StoreSemantics ==
    LET addr == lastOp'.row
        j == lastOp'.columnIndex
    IN  IF lastOp'.isNull
        THEN /\ isNullAt(cfg, RowAt(rows', addr), j)
             /\ cells'[addr].values[j] = cells[addr].values[j]
        ELSE ~isNullAt(cfg, RowAt(rows', addr), j)

C18_StoreSetsOrClearsNullBit ==
    [][StoredNullable(TypeKinds) => StoreSemantics]_vars

\* The same for the kinds that are not stored by storeComplexType.
C18_ExceptComplexKinds ==
    [][StoredNullable({k \in TypeKinds : ~isComplex(k)}) => StoreSemantics]_vars

(***************************************************************************)
(* C21.  After an eraseRows of a non-empty batch that returned, and after  *)
(* a setAllNull that returned, every column's statistics are marked as     *)
(* having no valid minimum and maximum, and minBytes() and maxBytes()      *)
(* answer nothing, whatever they answered before.                          *)
(***************************************************************************)
RemovedOrUpdated ==
    /\ lastOp.err = ""
    /\ \/ lastOp.op = "setAllNull"
       \/ lastOp.op = "eraseRows" /\ lastOp.rows # <<>>

MinMaxUnknown ==
    \A j \in 1..Len(stats) :
        /\ ~stats[j].minMaxStatsValid
        /\ minBytes(stats[j]) = NULL
        /\ maxBytes(stats[j]) = NULL

C21_MinMaxInvalidated == RemovedOrUpdated => MinMaxUnknown

\* An eraseRows of the only row, whose stored VARCHAR of one byte had given
\* the column a minimum and a maximum of 1.
C21_Witness ==
    /\ RemovedOrUpdated
    /\ lastOp.op = "eraseRows"
    /\ Len(stats) = 2
    /\ stats[2].minBytes = 1 /\ stats[2].maxBytes = 1
    /\ stats[2].nonNullCount = 0
    /\ ~stats[2].minMaxStatsValid

(***************************************************************************)
(* C22.  After clear() the container is empty: numRows and numFreeRows are *)
(* 0, the free list is empty, numRowsWithNormalizedKey is 0, the           *)
(* normalized-key size is the original one and every column's statistics   *)
(* count nothing; a newRow that returns next takes its row from the arena, *)
(* at the start of a first range, and nothing from a free list.            *)
(***************************************************************************)
Cleared ==
    /\ numRows = 0
    /\ numFreeRows = 0
    /\ firstFreeRow = NULL
    /\ FreeList = <<>>
    /\ numRowsWithNormalizedKey = 0
    /\ normalizedKeySize = originalNormalizedKeySize(cfg)
    /\ Len(stats) = Len(types(cfg))
    /\ \A j \in 1..Len(stats) :
          /\ stats[j].nullCount = 0
          /\ stats[j].nonNullCount = 0
          /\ stats[j].sumBytes = 0

NewRowAfterClear ==
    /\ lastOp.op = "clear"
    /\ lastOp'.op = "newRow"
    /\ lastOp'.err = ""

BumpAllocated ==
    /\ Len(ranges') = 1
    /\ ranges'[1].used = fixedRowSize(cfg) + normalizedKeySize
    /\ lastOp'.row = ranges'[1].start + normalizedKeySize
    /\ Len(rows') = 1
    /\ numRows' = 1
    /\ numFreeRows' = 0
    /\ firstFreeRow' = NULL

C22_ClearEmpties ==
    [][/\ lastOp'.op = "clear" => Cleared'
       /\ NewRowAfterClear => BumpAllocated]_vars

\* clear() right after an eraseRows that left rows on the free list, in a
\* container whose normalized keys had been disabled.
C22_Witness ==
    /\ lastOp.op = "clear"
    /\ prevErase.op = "eraseRows" /\ prevErase.err = ""
    /\ prevErase.rows # <<>>
    /\ originalNormalizedKeySize(cfg) # 0
    /\ Cleared

(***************************************************************************)
(* C23.  RowComparator::compare(lhs, rhs) takes the sorting keys in their  *)
(* order and returns the container's comparison, under the key's ascending *)
(* and nulls-first flags, of the first key on which the rows differ, and 0 *)
(* when they differ on none; compare(r, r) is 0; operator()(lhs, rhs) is   *)
(* true exactly when compare(lhs, rhs) < 0, and so false for (r, r).       *)
(***************************************************************************)
RowsCompared == lastOp.op = "RowComparator::compare"

\* The container's comparison of the rows of the last call on its i-th key.
KeyResult(i) ==
    LET key == lastOp.keyInfo[i]
    IN  compareWithFlags(cfg, RowAt(rows, lastOp.rows[1]),
                         cells[lastOp.rows[1]],
                         RowAt(rows, lastOp.rows[2]), cells[lastOp.rows[2]],
                         key.channel, compareFlags(key))

\* The keys on which the rows of the last call differ.
DifferingKeys == {i \in 1..Len(lastOp.keyInfo) : KeyResult(i) # 0}

FirstDifferingKey ==
    CHOOSE i \in DifferingKeys : \A j \in DifferingKeys : i <= j

C23_FirstDifferingKey ==
    RowsCompared =>
        /\ lastOp.result = IF DifferingKeys = {} THEN 0
                           ELSE KeyResult(FirstDifferingKey)
        /\ lastOp.rows[1] = lastOp.rows[2] => lastOp.result = 0
        /\ lastOp.less = (lastOp.result < 0)
        /\ lastOp.rows[1] = lastOp.rows[2] => ~lastOp.less

\* Two rows equal on the first sorting key and different on the second,
\* which is descending: the second key decides, and against the order of
\* the values.
C23_Witness ==
    /\ RowsCompared
    /\ Len(lastOp.keyInfo) = 2
    /\ DifferingKeys = {2}
    /\ ~lastOp.keyInfo[2].order.ascending
    /\ ~isNullAt(cfg, RowAt(rows, lastOp.rows[1]), lastOp.keyInfo[2].channel)
    /\ ~isNullAt(cfg, RowAt(rows, lastOp.rows[2]), lastOp.keyInfo[2].channel)
    /\ compareValues(types(cfg)[lastOp.keyInfo[2].channel],
           cells[lastOp.rows[1]].values[lastOp.keyInfo[2].channel],
           cells[lastOp.rows[2]].values[lastOp.keyInfo[2].channel]) < 0
    /\ lastOp.result > 0
    /\ ~lastOp.less

(***************************************************************************)
(* C24.  The two entry points of RowComparator agree: when a row r2 of the *)
(* container stores the values of the decoded tuple d, compare(d, index,   *)
(* r) has the sign of compare(r2, r).  The decoded entry point returns the *)
(* negation of the container's comparison of the row with the tuple on the *)
(* first key on which they differ, and 0 when they differ on none.         *)
(***************************************************************************)
DecodedCompared == lastOp.op = "RowComparator::compare(decoded)"

Sign(n) == IF n < 0 THEN -1 ELSE IF n > 0 THEN 1 ELSE 0

\* The row at 'addr' stores the values of the tuple 'decoded': the same
\* nulls and, where there is none, the same value.
SameValues(addr, decoded) ==
    \A j \in 1..Len(types(cfg)) :
        /\ isNullAt(cfg, RowAt(rows, addr), j) = decoded[j].isNull
        /\ ~decoded[j].isNull => cells[addr].values[j] = decoded[j].value

\* The container's comparison of the row of the last call with the tuple
\* of the last call on its i-th key.
DecodedKeyResult(i) ==
    LET key == lastOp.keyInfo[i]
    IN  compareDecoded(cfg, RowAt(rows, lastOp.row), cells[lastOp.row],
                       key.channel, lastOp.decoded[key.channel],
                       compareFlags(key))

DecodedDifferingKeys ==
    {i \in 1..Len(lastOp.keyInfo) : DecodedKeyResult(i) # 0}

FirstDecodedDifferingKey ==
    CHOOSE i \in DecodedDifferingKeys : \A j \in DecodedDifferingKeys : i <= j

C24_EntryPointsAgree ==
    DecodedCompared =>
        /\ \A r2 \in StoredRows :
              SameValues(r2, lastOp.decoded) =>
                  Sign(lastOp.result) =
                      Sign(RowComparatorCompare(cfg, lastOp.keyInfo,
                               RowAt(rows, r2), cells[r2],
                               RowAt(rows, lastOp.row), cells[lastOp.row]))
        /\ lastOp.result = IF DecodedDifferingKeys = {} THEN 0
                           ELSE -DecodedKeyResult(FirstDecodedDifferingKey)
        /\ lastOp.less = (lastOp.result < 0)

\* A tuple that another row of the container stores, compared with a row
\* whose dependent is null and whose key is the tuple's: the second sorting
\* key decides, nulls last, and the tuple comes first.
C24_Witness ==
    /\ DecodedCompared
    /\ \E r2 \in StoredRows :
          r2 # lastOp.row /\ SameValues(r2, lastOp.decoded)
    /\ Len(lastOp.keyInfo) = 2
    /\ DecodedDifferingKeys = {2}
    /\ ~lastOp.keyInfo[2].order.nullsFirst
    /\ isNullAt(cfg, RowAt(rows, lastOp.row), lastOp.keyInfo[2].channel)
    /\ lastOp.result < 0
    /\ lastOp.less

(***************************************************************************)
(* C25.  hash(column, rows, mix, result) takes for row i the null sentinel *)
(* when the column is nullable (a dependent, or a key of a container with  *)
(* nullable keys) and null in the row, or of the UNKNOWN type, and the     *)
(* type's hash of the stored value otherwise.  Without mix result[i] is    *)
(* that hash, whatever it was; with mix it is hashMix of what it was and   *)
(* that hash.  Two rows with the same value and nullness in the column     *)
(* get the same hash.                                                      *)
(***************************************************************************)
Hashed == lastOp.op = "hash"

NullableColumn(column) == column > NumKeys(cfg) \/ cfg.nullableKeys

\* The hash the claim gives the row at 'addr' in the column of the last
\* call.
ExpectedHash(addr) ==
    LET column == lastOp.column
    IN  IF \/ types(cfg)[column] = "UNKNOWN"
           \/ NullableColumn(column) /\ isNullAt(cfg, RowAt(rows, addr), column)
        THEN <<"kNullHash">>
        ELSE <<types(cfg)[column], cells[addr].values[column]>>

\* Two rows have the same nullness and, if not null, the same value in the
\* column of the last call.
SameCell(left, right) ==
    LET column == lastOp.column
        leftIsNull == isNullAt(cfg, RowAt(rows, left), column)
        rightIsNull == isNullAt(cfg, RowAt(rows, right), column)
    IN  /\ leftIsNull = rightIsNull
        /\ ~leftIsNull =>
              cells[left].values[column] = cells[right].values[column]

C25_HashOfColumn ==
    Hashed =>
        /\ Len(lastOp.result) = Len(lastOp.rows)
        /\ \A i \in 1..Len(lastOp.rows) :
              lastOp.result[i] =
                  IF lastOp.mix
                      THEN <<"hashMix", PreviousHash(i),
                             ExpectedHash(lastOp.rows[i])>>
                      ELSE ExpectedHash(lastOp.rows[i])
        /\ ~lastOp.mix =>
              \A i, j \in 1..Len(lastOp.rows) :
                  SameCell(lastOp.rows[i], lastOp.rows[j]) =>
                      lastOp.result[i] = lastOp.result[j]

\* The hashes, not mixed, of a nullable VARCHAR column of two rows, one
\* null and one not.
C25_Witness ==
    /\ Hashed
    /\ ~lastOp.mix
    /\ Len(lastOp.rows) = 2
    /\ types(cfg)[lastOp.column] = "VARCHAR"
    /\ isNullAt(cfg, RowAt(rows, lastOp.rows[1]), lastOp.column)
    /\ ~isNullAt(cfg, RowAt(rows, lastOp.rows[2]), lastOp.column)
    /\ lastOp.result[1] = kNullHash
    /\ lastOp.result[2] # kNullHash

(***************************************************************************)
(* C26.  Whatever the ranges of the arena, their number and their order,   *)
(* findRows writes to the result exactly the candidates whose address is   *)
(* in a range, start <= a < start + size, in the order of the input, and   *)
(* returns their number: a candidate in no range is not returned.          *)
(***************************************************************************)
FindCalled == lastOp.op = "findRows"

InSomeRange(address) ==
    \E i \in 1..Len(ranges) :
        LET range == rangeAt(ranges, i - 1)
        IN  range.data <= address /\ address < range.data + range.size

FindFilters ==
    /\ lastOp.err = ""
    /\ lastOp.result = SelectSeq(lastOp.rows, InSomeRange)
    /\ lastOp.numRows = Len(lastOp.result)

C26_FindRowsFilters == FindCalled => FindFilters

\* The same for an arena that has a range, or no candidate.
C26_WithARange ==
    FindCalled /\ (ranges # <<>> \/ lastOp.rows = <<>>) => FindFilters

\* Two ranges, the second below the first, and two candidates: the first in
\* the gap between the ranges, the second inside the lower range.
C26_TwoRangesDescending ==
    /\ FindCalled
    /\ Len(ranges) = 2
    /\ ranges[2].start < ranges[1].start
    /\ Len(lastOp.rows) = 2
    /\ lastOp.rows[1] > ranges[2].start + ranges[2].size
    /\ lastOp.rows[1] < ranges[1].start
    /\ InSomeRange(lastOp.rows[2])
    /\ lastOp.result = <<lastOp.rows[2]>>

(***************************************************************************)
(* C27.  The constructor called with an accumulator whose alignment is not *)
(* a power of two fails with 'Alignment can only be power of 2';           *)
(* combineAlignments(a, b) of two powers of two returns the greater.       *)
(***************************************************************************)
IsPowerOfTwo(n) == \E k \in 0..30 : n = 2 ^ k

Constructed == lastOp.op = "RowContainer"

Combined == lastOp.op = "combineAlignments"

BadAccumulators ==
    {i \in 1..Len(cfg.accumulators) :
        ~IsPowerOfTwo(cfg.accumulators[i].alignment)}

C27_PowerOfTwoAlignments ==
    /\ Constructed /\ BadAccumulators # {}
          => lastOp.err = kAlignmentPowerOf2
    /\ Combined /\ IsPowerOfTwo(lastOp.a) /\ IsPowerOfTwo(lastOp.b)
          => /\ lastOp.err = ""
             /\ lastOp.value = Max(lastOp.a, lastOp.b)

\* The same for alignments other than the least int32_t.
C27_BesidesInt32Min ==
    /\ Constructed /\ BadAccumulators # {}
       /\ (\A i \in BadAccumulators :
              cfg.accumulators[i].alignment # kInt32Min)
          => lastOp.err = kAlignmentPowerOf2
    /\ Combined /\ IsPowerOfTwo(lastOp.a) /\ IsPowerOfTwo(lastOp.b)
          => /\ lastOp.err = ""
             /\ lastOp.value = Max(lastOp.a, lastOp.b)

\* The constructor has failed on the second accumulator, of alignment 12,
\* after one of alignment 16.
C27_FailedOnTwelve ==
    /\ Constructed
    /\ lastOp.err = kAlignmentPowerOf2
    /\ Len(cfg.accumulators) = 2
    /\ cfg.accumulators[1].alignment = 16
    /\ cfg.accumulators[2].alignment = 12

\* combineAlignments has returned the first of two powers of two, the
\* greater.
C27_CombinedSixteenAndFour ==
    /\ Combined
    /\ lastOp.err = ""
    /\ lastOp.a = 16 /\ lastOp.b = 4
    /\ lastOp.value = 16

(***************************************************************************)
(* C28.  Threads call setProbedFlag on a sealed container, on rows in      *)
(* common, the loads and stores of the flag bytes in any order: no step    *)
(* changes a bit of a row other than its probed bit, null entries change   *)
(* nothing, and when all calls have returned every row passed to one has   *)
(* its probed bit set.                                                     *)
(***************************************************************************)
Probing == probers # NoProbers

AllReturned ==
    /\ Probing
    /\ \A t \in 1..Len(probers.calls) : probers.calls[t].pc = "returned"

AllPassedProbed ==
    \A addr \in probers.rows :
        isBitSet(RowAt(rows, addr), probedFlagOffset(cfg))

\* A step of the probe changes the probed bit of the row a thread is at, if
\* any bit, and sets it if it changes it.
OnlyProbedBits ==
    Probing =>
        /\ Len(rows') = Len(rows)
        /\ \A i \in 1..Len(rows) :
              /\ rows'[i].addr = rows[i].addr
              /\ rows'[i].bits \ {probedFlagOffset(cfg)} =
                     rows[i].bits \ {probedFlagOffset(cfg)}
              /\ rows[i].bits \subseteq rows'[i].bits
              /\ rows'[i] # rows[i] =>
                     \E t \in 1..Len(probers.calls) :
                         /\ probers.calls[t].pc = "store"
                         /\ probers.calls[t].row = rows[i].addr

C28_ProbedFlagsSet ==
    [](AllReturned => AllPassedProbed) /\ [][OnlyProbedBits]_vars

\* Two calls have returned that both loaded the flag byte of the one row
\* before either stored it; a null entry was passed, the key of the row is
\* null, and there is a row passed to neither call.
C28_Witness ==
    /\ AllReturned
    /\ Len(probers.calls) = 2
    /\ Len(rows) = 2
    /\ probers.rows = {rows[1].addr}
    /\ probers.nulls
    /\ probers.calls[1].byte = probers.calls[2].byte
    /\ probedFlagOffset(cfg) \notin probers.calls[1].byte
    /\ rows[1].bits = allNullBits(cfg) \cup {probedFlagOffset(cfg)}
    /\ ~isBitSet(rows[2], probedFlagOffset(cfg))

(***************************************************************************)
(* C29.  skip(iter, n) with iter.rowNumber + n < numRows raises            *)
(* iter.rowNumber by n, lowers iter.normalizedKeysLeft by the lesser of n  *)
(* and it, and moves the cursor n rows forward, each row of its own        *)
(* stride, also from rows with the normalized-key prefix to rows without   *)
(* and from one arena range to the next.                                   *)
(***************************************************************************)
\* The step is a call of skip.
SkipCalled == lastOp'.op = "skip"

\* Where the iterator is when the call begins: a zero-initialized one is at
\* the first row, with all the prefixed rows ahead.
SkipFrom ==
    IF iter.endOfRun = NULL
        THEN [rowNumber |-> 0, normalizedKeysLeft |-> numRowsWithNormalizedKey,
              row |-> IF rows = <<>> THEN NULL ELSE rows[1].addr]
        ELSE [rowNumber |-> iter.rowNumber,
              normalizedKeysLeft |-> iter.normalizedKeysLeft,
              row |-> currentRow(iter)]

\* The row n rows after 'row' in the arena, NULL when there is none.
RowAfter(row, n) ==
    IF \E i \in 1..Len(rows) : rows[i].addr = row /\ i + n <= Len(rows)
        THEN rows[RowIndex(rows, row) + n].addr
        ELSE NULL

SkippedExactly ==
    /\ lastOp'.err = ""
    /\ iter'.rowNumber = SkipFrom.rowNumber + lastOp'.n
    /\ iter'.normalizedKeysLeft =
           SkipFrom.normalizedKeysLeft -
               Min(lastOp'.n, SkipFrom.normalizedKeysLeft)
    /\ currentRow(iter') = RowAfter(SkipFrom.row, lastOp'.n)
    /\ currentRow(iter') # NULL

SkipInBounds == SkipFrom.rowNumber + lastOp'.n < numRows

C29_SkipAdvancesExactly ==
    [][SkipCalled /\ SkipInBounds => SkippedExactly]_vars

\* The same for containers whose rows all have the same stride.
C29_UniformStride ==
    [][SkipCalled /\ SkipInBounds /\ UniformStride => SkippedExactly]_vars

\* The same for containers without a freed slot whose rows all have the
\* same stride.
C29_WithoutFreedSlotsUniformStride ==
    [][SkipCalled /\ SkipInBounds /\ UniformStride /\ NoFreedSlot
          => SkippedExactly]_vars

\* The first skip on an iterator has returned with rowNumber above the
\* rows it was to skip.
C29_RowNumberPastSkipped ==
    /\ lastOp.op = "skip"
    /\ lastOp.err = ""
    /\ Len(scan.listed) = 1
    /\ lastOp.n < numRows
    /\ iter.rowNumber > lastOp.n

(***************************************************************************)
(* C30.  On a sealed container every call of listPartitionRows on one      *)
(* iterator, maxRows >= 1, returns a row or leaves iter.rowNumber at       *)
(* numRows; a call that has returned no row is followed only by calls      *)
(* that return none and leave the iterator as it is, and the scan comes to *)
(* such a call; and a skip that reaches or passes numRows sets             *)
(* iter.rowNumber to numRows and the cursor to null, as does every skip    *)
(* after it.                                                               *)
(***************************************************************************)
\* The step is a call of listPartitionRows on a sealed container whose
\* table has a partition for every row.
ListCalled ==
    /\ lastOp'.op = "listPartitionRows"
    /\ ~mutable
    /\ tableSizeMatches

ListProgress ==
    /\ lastOp'.err = ""
    /\ lastOp'.rows # <<>> \/ iter'.rowNumber = numRows

\* The call before returned no row.
ListedOut ==
    /\ lastOp.op = "listPartitionRows"
    /\ lastOp.err = ""
    /\ lastOp.rows = <<>>

ListStaysOut ==
    /\ lastOp'.err = ""
    /\ lastOp'.rows = <<>>
    /\ iter' = iter

ListTerminates ==
    /\ ListCalled => ListProgress
    /\ ListCalled /\ ListedOut => ListStaysOut

SkipTerminal ==
    /\ lastOp'.err = ""
    /\ iter'.rowNumber = numRows
    /\ iter'.rowBegin = NULL

SkipTerminates == SkipCalled /\ ~SkipInBounds => SkipTerminal

C30_ListAndSkipTerminate ==
    /\ [][ListTerminates /\ SkipTerminates]_vars
    /\ Listing ~> ListedOut

\* The arena has a range and its rows all have the same stride.
OneStrideInARange == ranges # <<>> /\ UniformStride

\* The same for containers whose arena has a range and whose rows all have
\* the same stride.
C30_OneStrideInARange ==
    /\ [][OneStrideInARange => ListTerminates /\ SkipTerminates]_vars
    /\ (Listing /\ OneStrideInARange) ~> ListedOut

\* The calls of listPartitionRows alone.
C30_ListTerminates == [][ListTerminates]_vars

\* The calls of skip alone.
C30_SkipTerminates == [][SkipTerminates]_vars

\* The calls of skip alone, when the arena has a range.
C30_SkipTerminatesInARange == [][ranges # <<>> => SkipTerminates]_vars

\* A scan of three rows has come to its end in two calls, the second after
\* a skip that passed the last row.
C30_ScanEnded ==
    /\ ListedOut
    /\ numRows = 3
    /\ Len(scan.listed) = 1
    /\ iter.rowNumber = numRows
    /\ iter.rowBegin = NULL

(***************************************************************************)
(* C31: the destroy hooks, once for every lifetime of a row.               *)
(***************************************************************************)
\* How often 'x' is in the sequence 's'.
Occurrences(s, x) == Cardinality({i \in 1..Len(s) : s[i] = x})

RECURSIVE SumOccurrences(_, _, _)
SumOccurrences(calls, a, addr) ==
    IF calls = <<>> THEN 0
    ELSE (IF Head(calls).accumulator = a
              THEN Occurrences(Head(calls).rows, addr) ELSE 0)
         + SumOccurrences(Tail(calls), a, addr)

\* How often the destroy hook of accumulator 'a' has been given the row at
\* 'addr'.
Destroyed(a, addr) == SumOccurrences(lifetimes.destroyed, a, addr)

\* The lifetimes of the row at 'addr' that have ended: the times newRow
\* returned it, less the one that goes on.
EndedLifetimes(addr) ==
    Occurrences(lifetimes.born, addr) - (IF addr \in handedOut THEN 1 ELSE 0)

DestroyedOncePerLifetime ==
    \A a \in 1..NumAccumulators(cfg), addr \in SeqToSet(lifetimes.born) :
        Destroyed(a, addr) = EndedLifetimes(addr)

ClearCalled == lastOp'.op = "clear"

ClearOfNoExternalMemory ==
    ClearCalled /\ ~usesExternalMemory(cfg)
        => lifetimes'.destroyed = lifetimes.destroyed

\* C31: in a container with an accumulator that uses external memory, at
\* every point of a sequence of newRow, eraseRows and a last clear, every
\* accumulator's destroy hook has been given every row once for each of its
\* lifetimes that has ended (by eraseRows or by clear) and no more, so
\* never a row of the free list; in a container without such an
\* accumulator, clear calls no destroy hook.
C31_DestroyOncePerLifetime ==
    /\ [](usesExternalMemory(cfg) => DestroyedOncePerLifetime)
    /\ [][ClearOfNoExternalMemory]_vars

\* The same as long as no eraseRows has thrown.
C31_UntilAFailedErase ==
    /\ [](usesExternalMemory(cfg) /\ ~aborted => DestroyedOncePerLifetime)
    /\ [][ClearOfNoExternalMemory]_vars

\* In such a sequence the same holds of every container, whether an
\* accumulator uses external memory or not, until clear is called.
C31_ErasedRowsInEveryContainer ==
    [](~aborted /\ ~Ended => DestroyedOncePerLifetime)

\* A row was erased, returned again by newRow and is live at a clear that
\* destroys it a second time; the other row has lived once.
C31_TwoLifetimes ==
    /\ Ended
    /\ ~aborted
    /\ usesExternalMemory(cfg)
    /\ \E addr \in SeqToSet(lifetimes.born) :
          /\ Occurrences(lifetimes.born, addr) = 2
          /\ Destroyed(1, addr) = 2
    /\ Len(lifetimes.born) = 3

(***************************************************************************)
(* C32: an eraseRows that fails with the double-free error.                *)
(***************************************************************************)
EraseFailed == lastOp'.op = "eraseRows" /\ lastOp'.err = kDoubleFree

ContainerAsBefore ==
    /\ numRows' = numRows
    /\ numFreeRows' = numFreeRows
    /\ rows' = rows
    /\ firstFreeRow' = firstFreeRow
    /\ stats' = stats
    /\ lifetimes' = lifetimes

\* C32: an eraseRows that fails with 'Double free of row' leaves the
\* container as it was: numRows and numFreeRows, the free bit and the
\* free-list link of every row, the head of the free list and the column
\* statistics are unchanged, and no destroy hook nor release of
\* variable-width payload has been called.
C32_FailedEraseChangesNothing == [][EraseFailed => ContainerAsBefore]_vars

\* What every failed eraseRows does: numRows_ is lowered by the size of
\* the batch, the destroy hooks and the release are called with the whole
\* batch, and numFreeRows_ is left as it was.
C32_FailedEraseLowersNumRows ==
    [][EraseFailed =>
          /\ numRows' = numRows - Len(lastOp'.rows)
          /\ numFreeRows' = numFreeRows
          /\ lifetimes' = freeRowsExtraMemory(lifetimes, cfg, lastOp'.rows)]_vars

\* The rows of the batch before the one that failed the check are erased:
\* free bit set, pushed on the free list, taken off the statistics.
C32_FailedEraseKeepsRowsBefore ==
    [][EraseFailed /\ lastOp'.rows[1] \in handedOut =>
          /\ isBitSet(RowAt(rows', lastOp'.rows[1]), freeFlagOffset(cfg))
          /\ ~isBitSet(RowAt(rows, lastOp'.rows[1]), freeFlagOffset(cfg))
          /\ stats' # stats]_vars

\* An eraseRows of a live row and a freed one has failed: the live row is
\* on the free list, which numFreeRows_ does not count.
C32_HalfErased ==
    /\ lastOp.op = "eraseRows"
    /\ lastOp.err = kDoubleFree
    /\ Len(lastOp.rows) = 2
    /\ firstFreeRow = lastOp.rows[1]
    /\ numFreeRows = 1
    /\ Len(FreeList) = 2
    /\ handedOut = {}

(***************************************************************************)
(* C33: the byte regions of the row layout.                                *)
(***************************************************************************)
\* The bytes of a row from 'start' on, 'size' of them.
Region(start, size) == start..(start + size - 1)

\* The slot of the i-th key.
KeySlot(c, i) == Region(offsets(c)[i], typeKindSize(c.keyTypes[i]))

\* The pointer nextFree(row) reads and eraseRows writes.
FreeListLink == Region(0, kPointerSize)

FlagBlock(c) == Region(firstAggregateOffset(c), flagBytes(c))

AccumulatorPayload(c, i) ==
    Region(offsets(c)[NumKeys(c) + i], c.accumulators[i].fixedSize)

DependentPayload(c, i) ==
    Region(offsets(c)[NumKeys(c) + NumAccumulators(c) + i],
           typeKindSize(c.dependentTypes[i]))

\* The variable-row-size counter and the next pointer, where the row has
\* them.
RowSizeCounter(c) ==
    IF rowSizeOffset(c) # 0 THEN Region(rowSizeOffset(c), 4) ELSE {}

NextPointer(c) ==
    IF c.hasNext THEN Region(nextOffset(c), kPointerSize) ELSE {}

\* The regions behind the keys.
RegionsBehindKeys(c) ==
    <<FlagBlock(c)>> \o
    [i \in 1..NumAccumulators(c) |-> AccumulatorPayload(c, i)] \o
    [i \in 1..NumDependents(c) |-> DependentPayload(c, i)] \o
    <<RowSizeCounter(c), NextPointer(c)>>

KeySlots(c) == [i \in 1..NumKeys(c) |-> KeySlot(c, i)]

PairwiseDisjoint(regions) ==
    \A i, j \in 1..Len(regions) :
        i # j => regions[i] \cap regions[j] = {}

InsideRow(c, regions) ==
    \A i \in 1..Len(regions) : regions[i] \subseteq 0..(fixedRowSize(c) - 1)

\* The flag block begins behind the free-list link: the bytes eraseRows
\* writes the link to hold no flag, the free bit least of all.
FlagsBehindLink(c) ==
    /\ firstAggregateOffset(c) >= kPointerSize
    /\ freeFlagOffset(c) \div 8 \in FlagBlock(c)
    /\ freeFlagOffset(c) \div 8 \notin FreeListLink

AccumulatorsAligned(c) ==
    \A i \in 1..NumAccumulators(c) :
        offsets(c)[NumKeys(c) + i] % c.accumulators[i].alignment = 0

\* C33 as stated: the key slots, the free-list link, the flag block, the
\* accumulator payloads, the dependent payloads, the row-size counter and
\* the next pointer are pairwise disjoint and inside [0, fixedRowSize);
\* the flag block begins at or behind the pointer size; every accumulator
\* is at a multiple of its alignment.
C33_RegionsDisjointWithLink ==
    LET regions == KeySlots(cfg) \o <<FreeListLink>> \o RegionsBehindKeys(cfg)
    IN  /\ PairwiseDisjoint(regions)
        /\ InsideRow(cfg, regions)
        /\ FlagsBehindLink(cfg)
        /\ AccumulatorsAligned(cfg)

\* C33: the key slots, the flag block, the accumulator payloads, the
\* dependent payloads, the row-size counter and the next pointer are
\* pairwise disjoint and inside [0, fixedRowSize); the free-list link, the
\* pointer at offset 0, lies over the first key slots and the padding
\* behind them, is inside the row and is disjoint from the flag block and
\* from every region behind it; the flag block begins at or behind the
\* pointer size, so the link never holds the free bit; every accumulator
\* is at a multiple of its alignment.
C33_RegionsDisjoint ==
    /\ PairwiseDisjoint(KeySlots(cfg) \o RegionsBehindKeys(cfg))
    /\ PairwiseDisjoint(<<FreeListLink>> \o RegionsBehindKeys(cfg))
    /\ InsideRow(cfg, KeySlots(cfg) \o <<FreeListLink>> \o
                      RegionsBehindKeys(cfg))
    /\ FlagsBehindLink(cfg)
    /\ AccumulatorsAligned(cfg)

\* Where the statement as made fails: the containers with a key.
C33_LinkOverKeys ==
    NumKeys(cfg) > 0 => FreeListLink \cap KeySlot(cfg, 1) # {}

\* Without a key the regions as stated are disjoint.
C33_WithoutKeys == NumKeys(cfg) = 0 => C33_RegionsDisjointWithLink

\* A row with a key of one byte, accumulators aligned to 16 and to 1, a
\* dependent, the counter and the next pointer has been erased after
\* another: its link holds the address of that row and its free bit is set.
C33_Witness ==
    /\ cfg.keyTypes = <<"TINYINT", "VARCHAR">>
    /\ NumAccumulators(cfg) = 2
    /\ cfg.accumulators[1].alignment = 16
    /\ cfg.accumulators[2].alignment = 1
    /\ NumDependents(cfg) = 1
    /\ cfg.hasNext
    /\ rowSizeOffset(cfg) # 0
    /\ numFreeRows = 2
    /\ firstFreeRow # NULL
    /\ nextFree(RowAt(rows, firstFreeRow)) # NULL
    /\ isBitSet(RowAt(rows, firstFreeRow), freeFlagOffset(cfg))

====
